---------------------------- MODULE Spec2Model ----------------------------
(***************************************************************************)
(* A model of the signal-conditioning pipeline of the web_music            *)
(* visualizer: the bar tracks with peak hold, the history ring, the        *)
(* particle field, the noise calibrator with its stored profile and the    *)
(* stereo channel meters.                                                  *)
(*                                                                         *)
(* Numbers.  The program computes in IEEE doubles.  The model computes in  *)
(* fixed point: a level or a percentage x is the integer x * FP, and a     *)
(* product with a decimal factor is taken in integers and floored          *)
(* (x * 0.85 is (x * 85) \div 100).  Times are milliseconds.               *)
(*                                                                         *)
(* Scheduling.  The program is single threaded: every handler (a command,  *)
(* an animation-frame callback, a timer callback) runs to completion, so   *)
(* each is one action.  Pending animation frames and pending timers are    *)
(* state; the environment fires them in any order.                         *)
(***************************************************************************)
EXTENDS Integers, Sequences, FiniteSets, TLC

VARIABLES
    \* ---- AudioVisualizer (all variants) ----
    audioReady,          \* audioContext and analyser exist (initAudio succeeded)
    isRunning,
    animationId,         \* 0 is null
    frames,              \* ids of the animation-frame callbacks still pending
    barSmoothValues,
    barPeaks,
    barPeakTimes,
    spectrumHistory,
    \* ---- AudioVisualizer of docs/app.js: particles and energies ----
    particles,
    particlePool,
    rollingAverages,
    musicEnergy,
    bassEnergy,
    midEnergy,
    trebleEnergy,
    fullscreen,          \* document.body carries the class fullscreen-mode
    \* ---- environment ----
    clock,               \* Date.now()
    \* ---- history (ghost) variables, no field of the program ----
    lastOp,              \* name of the last handler that ran; a start() that found
                         \* isRunning false is "coldStart", a stop() right after
                         \* a stop() is "stopAgain"
    ticks,               \* animate() bodies executed so far
    pushLog,             \* bar snapshots recorded since the last stop, newest first
    lastData,            \* the snapshot the last animate() body read
    refused,             \* spawnParticle calls that returned at the capacity test
    \* ---- ChannelMeters (src/channel-meters.js) ----
    mAudioReady,         \* the splitter and the two analysers exist
    mIsRunning,          \* isRunning
    mAnimationId,        \* animationId, 0 is null
    mFrames,             \* ids of the meters' animation-frame callbacks still pending
    leftBaseline,
    rightBaseline,
    mCalibrationSamples, \* calibrationSamples, a count
    leftHistory,
    rightHistory,
    leftBarWidth,        \* leftBar.style.width, in percent
    rightBarWidth,
    mTimers,             \* pending calibrate callbacks: how many were scheduled
                         \* since the last stop() (live) and before it (stale);
                         \* the callbacks share all their state, so only the
                         \* counts matter
    \* ---- history (ghost) variables of the meters ----
    mLastOp,
    mTicks,              \* animate() bodies and calibrate samples executed so far
    mOut,                \* what calculateFilteredRMS returned in the last tick
    mSame,               \* per channel: latest consecutive ticks whose snapshot
                         \* was the baseline in every bin (capped at 3)
    staleSample,         \* a calibrate callback pending at a stop() took a sample
    twin,                \* a second run of the meters under the same operations
                         \* with snapshots of its own: its baselines, histories
                         \* and outputs, and whether every left (right) snapshot
                         \* it read so far was the first run's
    \* ---- one call of the level shapers ----
    shRaw,               \* the argument rawLevel
    shNoise,             \* the argument noiseLevel
    shOut,               \* the values returned, one per variant
    shDone,              \* the call has returned
    \* ---- AudioVisualizer of unnamed/part_000: the noise profile ----
    backgroundNoise,
    noiseCalibrationCount,
    manualCalibrationActive,
    calibrationSamples,
    noiseTimers,         \* pending calibrateStep callbacks
    storage,             \* the item neonVisualizerNoiseProfile of localStorage
    storageBroken,       \* every access to localStorage throws
    \* ---- history (ghost) variables of the noise profile ----
    saved,               \* the profile and the time saveNoiseProfile() last took
    loadOk,              \* what loadStoredNoiseProfile() last returned
    reloads,             \* page loads after the first
    manualBuilt,         \* the profile in memory comes from a manual calibration
    autoWroteManual,     \* a calibrateStep sample was written into such a profile
    \* ---- the bar loop of animate() on its own ----
    bufferLength,        \* analyser.frequencyBinCount
    barCount,
    loopIndex,           \* i of the loop
    barRanges            \* startIndex and endIndex of the bars done so far

vizVars == <<audioReady, isRunning, animationId, frames, barSmoothValues,
             barPeaks, barPeakTimes, spectrumHistory>>
energyVars == <<musicEnergy, bassEnergy, midEnergy, trebleEnergy>>
docVars == <<particles, particlePool, rollingAverages, energyVars, fullscreen>>
ghostVars == <<lastOp, ticks, pushLog, lastData, refused>>
meterVars == <<mAudioReady, mIsRunning, mAnimationId, mFrames, leftBaseline,
               rightBaseline, mCalibrationSamples, leftHistory, rightHistory,
               leftBarWidth, rightBarWidth, mTimers>>
meterGhost == <<mLastOp, mTicks, mOut, mSame, staleSample, twin>>
\* everything outside the AudioVisualizer, and everything outside the meters
shaperVars == <<shRaw, shNoise, shOut, shDone>>
bucketVars == <<bufferLength, barCount, loopIndex, barRanges>>
noiseVars == <<backgroundNoise, noiseCalibrationCount, manualCalibrationActive,
               calibrationSamples, noiseTimers, storage, storageBroken>>
noiseGhost == <<saved, loadOk, reloads, manualBuilt, autoWroteManual>>
\* everything outside the AudioVisualizer of audio-visualizer.js and docs/app.js,
\* outside the meters, and outside the AudioVisualizer of unnamed/part_000
notViz == <<meterVars, meterGhost, shaperVars, noiseVars, noiseGhost, bucketVars>>
notMeters == <<vizVars, docVars, clock, ghostVars, shaperVars, noiseVars, noiseGhost,
               bucketVars>>
notNoise == <<spectrumHistory, docVars, pushLog, refused, meterVars, meterGhost,
              shaperVars, bucketVars>>
vars == <<vizVars, docVars, clock, ghostVars, meterVars, meterGhost, shaperVars,
          noiseVars, noiseGhost, bucketVars>>

-----------------------------------------------------------------------------
(* Bounds of the model *)

\* fixed-point unit: one percent (or one byte level) is FP
FP == 10 * 100

\* bins per snapshot (analyser.frequencyBinCount; 128 in the program)
BufferLength == 10
\* bars (barCount; 64 or 48 in the program)
BarCount == 5
\* animate() bodies per behaviour, in the specifications with varied input
MaxTicks == 3
\* animate() bodies per behaviour, in the specification of docs/app.js
MaxDocsTicks == 3
\* animate() bodies per behaviour, in the history-ring specification
MaxRingTicks == 12
\* animation-frame ids
MaxFrames == 2
\* live particles (maxParticles; 200 in the program, for 48 bars)
MaxParticles == 3
\* animate() bodies per behaviour, in the particle-pool specification
MaxPoolTicks == 58
\* animate() bodies per behaviour, in the particle-life specification
MaxLifeTicks == 103
\* animate() bodies per behaviour, in the silence specification
MaxSilenceTicks == 50
\* leading animate() bodies that hear a loud input, in the particle-pool and the
\* silence specifications
LoudTicks == 3
\* raw averages tried per byte level by the level-shaper specification
ShaperDiv == 4
\* animate() bodies per behaviour, in the display-mode specification
MaxFullTicks == 12
\* animate() bodies per behaviour, in the restart specification
MaxRestartTicks == 3
\* animate() bodies per behaviour, in the noise-profile specification
MaxNoiseTicks == 2
\* samples of one automatic noise calibration (30 in the program)
NoiseCalibrationTarget == 2
\* samples that end a manual capture (100 in the program)
CalibrationWindow == 2
\* page loads after the first
MaxReloads == 1
\* animate() bodies of the meters per behaviour
MaxMeterTicks == 4
\* samples of one baseline calibration (20 in the program)
CalibrationTarget == 2
\* animate() bodies per behaviour of both components together
MaxAppTicks == 3

Bins == 0 .. (BufferLength - 1)
Bars == 0 .. (BarCount - 1)
FrameIds == 1 .. MaxFrames

\* lastOp after a stop(): "stopAgain" when the handler before it was a stop() too
StopOps == {"stop", "stopAgain"}

Max(a, b) == IF a >= b THEN a ELSE b
Min(a, b) == IF a <= b THEN a ELSE b

RECURSIVE SumOver(_, _, _)
\* sum of f[j] for j in lo .. hi-1
SumOver(f, lo, hi) == IF lo >= hi THEN 0 ELSE f[lo] + SumOver(f, lo + 1, hi)

-----------------------------------------------------------------------------
(* Inputs: magnitude snapshots, one byte per bin, and the time between events *)

ByteMax == 255

ConstSnap(c) == [j \in Bins |-> c]
\* loud in the two lowest bins only
StepSnap(c) == [j \in Bins |-> IF j < 2 THEN c ELSE 0]
\* the two lowest bins and the highest bin at level c
TailSnap(c) == [j \in Bins |-> IF j < 2 \/ j = BufferLength - 1 THEN c ELSE 0]

Snapshots == {ConstSnap(0), ConstSnap(40), ConstSnap(ByteMax), StepSnap(ByteMax)}
RingSnapshots == {StepSnap(ByteMax)}

\* a display frame, and a pause longer than the peak hold time
FrameMs == 16
PauseMs == 250
Dts == {FrameMs, PauseMs}
RingDts == {FrameMs}

\* decay = 0.01 + Math.random() * 0.01 lies in [0.010, 0.020); a life of 1.0 is FP
DecayChoices == {10, 19}
\* the draws of one tick that spawns n particles: the k-th particle takes the k-th
Draws(n) == [1 .. n -> DecayChoices]

-----------------------------------------------------------------------------
(* src/audio-visualizer.js: AudioVisualizer with the history ring *)

PeakHoldTime == 200
MaxHistoryLayers == 10

\* usableRange and barWidth of animate()
UsableRangeOf(n) == (n * 6) \div 10
\* barWidth rounded up
BarWidthCeil(n, bars) == (UsableRangeOf(n) + bars - 1) \div bars
BarWidthOf(n, bars) == UsableRangeOf(n) \div bars
StartIndexOf(n, bars, i) == i * BarWidthOf(n, bars)
EndIndexOf(n, bars, i) ==
    Min(StartIndexOf(n, bars, i) + BarWidthOf(n, bars), UsableRangeOf(n))

\* the same for the sizes of the model
UsableRange == UsableRangeOf(BufferLength)
BarWidth == BarWidthOf(BufferLength, BarCount)
StartIndex(i) == StartIndexOf(BufferLength, BarCount, i)
EndIndex(i) == EndIndexOf(BufferLength, BarCount, i)

\* average = sum / (endIndex - startIndex), in fixed point
Average(data, i) ==
    (SumOver(data, StartIndex(i), EndIndex(i)) * FP) \div (EndIndex(i) - StartIndex(i))

\* processAudioLevel(rawLevel) clamped to [0, 100]
ProcessAudioLevel3DNoFloor(rawLevel) ==
    Max(0, Min(100 * FP, (rawLevel * 100) \div ByteMax))

\* processAudioLevel(rawLevel): (rawLevel / 255) * 100 clamped to [1, 100]
ProcessAudioLevel3D(rawLevel) ==
    Max(1 * FP, Min(100 * FP, (rawLevel * 100) \div ByteMax))

NoiseMargin == 5

ProcessAudioLevelNoFloor(rawLevel, noiseLevel) ==
    LET cleanedLevel == Max(0, rawLevel - noiseLevel - NoiseMargin * FP)
    IN  Min(100 * FP, (cleanedLevel * 100) \div ByteMax)

\* processAudioLevel(rawLevel, noiseLevel) of the noise-subtracting variant
ProcessAudioLevel(rawLevel, noiseLevel) ==
    LET cleanedLevel == Max(0, rawLevel - noiseLevel - NoiseMargin * FP)
    IN  Max(1 * FP, Min(100 * FP, (cleanedLevel * 100) \div ByteMax))

\* the delta added to the new level instead of the old value
SmoothFromNew(smoothed, barHeight) == barHeight + ((barHeight - smoothed) * 3) \div 10

\* smoothed + (barHeight - smoothed) * smoothingFactor, smoothingFactor = 0.3
Smooth(smoothed, barHeight) == smoothed + ((barHeight - smoothed) * 3) \div 10

\* the peak-hold branch with the two decay factors exchanged
PeakStepSwapped(peak, peakTime, smoothed, now) ==
    IF smoothed > peak
    THEN [peak |-> smoothed, time |-> now]
    ELSE IF now - peakTime > PeakHoldTime
         THEN [peak |-> Max((peak * 98) \div 100, smoothed), time |-> peakTime]
         ELSE [peak |-> Max((peak * 85) \div 100, smoothed), time |-> peakTime]

\* the peak-hold branch of animate(): the new peak and its timestamp
PeakStep(peak, peakTime, smoothed, now) ==
    IF smoothed > peak
    THEN [peak |-> smoothed, time |-> now]
    ELSE IF now - peakTime > PeakHoldTime
         THEN [peak |-> Max((peak * 85) \div 100, smoothed), time |-> peakTime]
         ELSE [peak |-> Max((peak * 98) \div 100, smoothed), time |-> peakTime]

\* displayHeight = max(smoothed, peak * 0.5)
DisplayHeight(smoothed, peak) == Max(smoothed, peak \div 2)

\* one pass of the bar loop of animate() for bar i: the bar's new track
BarTrack3D(data, i, now) ==
    LET barHeight == ProcessAudioLevel3D(Average(data, i))
        s1 == Smooth(barSmoothValues[i], barHeight)
        pk == PeakStep(barPeaks[i], barPeakTimes[i], s1, now)
    IN  [smooth |-> DisplayHeight(s1, pk.peak), peak |-> pk.peak, time |-> pk.time]

\* the ring with the newest entry dropped instead of the oldest
UpdateSpectrumHistoryDropNewest(history, bars) ==
    LET h1 == <<bars>> \o history
    IN  IF Len(h1) > MaxHistoryLayers THEN SubSeq(h1, 2, Len(h1)) ELSE h1

\* updateSpectrumHistory(): unshift a copy of the bars, pop when over capacity
UpdateSpectrumHistory(history, bars) ==
    LET h1 == <<bars>> \o history
    IN  IF Len(h1) > MaxHistoryLayers THEN SubSeq(h1, 1, Len(h1) - 1) ELSE h1

\* requestAnimationFrame: the smallest id that is not in use
NewFrame(pending) == CHOOSE id \in FrameIds \ pending :
                         \A other \in FrameIds \ pending : id <= other

\* the body of animate() once isRunning has been found true
Animate3D(data, now, pending) ==
    LET track == [i \in Bars |-> BarTrack3D(data, i, now)]
        bars == [i \in Bars |-> track[i].smooth]
        id == NewFrame(pending)
    IN  /\ barSmoothValues' = bars
        /\ barPeaks' = [i \in Bars |-> track[i].peak]
        /\ barPeakTimes' = [i \in Bars |-> track[i].time]
        /\ spectrumHistory' = UpdateSpectrumHistory(spectrumHistory, bars)
        /\ animationId' = id
        /\ frames' = pending \cup {id}
        /\ ticks' = ticks + 1
        /\ pushLog' = <<bars>> \o pushLog
        /\ lastData' = data

\* initAudio() succeeds
InitAudio ==
    /\ ~audioReady
    /\ UNCHANGED notViz
    /\ audioReady' = TRUE
    /\ lastOp' = "initAudio"
    /\ UNCHANGED <<isRunning, animationId, frames, barSmoothValues, barPeaks,
                   barPeakTimes, spectrumHistory, docVars, clock, ticks,
                   pushLog, lastData, refused>>

\* start(): throws before any assignment when the audio is not initialised
Start3D(snaps, dts, maxTicks) ==
    /\ audioReady
    /\ ticks < maxTicks
    /\ frames # FrameIds
    /\ UNCHANGED notViz
    /\ \E data \in snaps, dt \in dts :
          /\ clock' = clock + dt
          /\ isRunning' = TRUE
          /\ Animate3D(data, clock + dt, frames)
    /\ lastOp' = IF isRunning THEN "start" ELSE "coldStart"
    /\ UNCHANGED <<audioReady, docVars, refused>>

\* stop()
Stop3D ==
    /\ UNCHANGED notViz
    /\ isRunning' = FALSE
    /\ animationId' = 0
    /\ frames' = frames \ {animationId}
    /\ barSmoothValues' = [i \in Bars |-> 0]
    /\ spectrumHistory' = <<>>
    /\ pushLog' = <<>>
    /\ lastOp' = IF lastOp \in StopOps THEN "stopAgain" ELSE "stop"
    /\ UNCHANGED <<audioReady, barPeaks, barPeakTimes, docVars, clock, ticks,
                   lastData, refused>>

\* a pending animation-frame callback runs animate()
Frame3D(snaps, dts, maxTicks) ==
    /\ UNCHANGED notViz
    /\ \E id \in frames :
        IF isRunning
        THEN /\ ticks < maxTicks
             /\ \E data \in snaps, dt \in dts :
                   /\ clock' = clock + dt
                   /\ Animate3D(data, clock + dt, frames \ {id})
             /\ lastOp' = "frame"
             /\ UNCHANGED <<audioReady, isRunning, docVars, refused>>
        ELSE /\ frames' = frames \ {id}
             /\ lastOp' = "frame"
             /\ UNCHANGED <<audioReady, isRunning, animationId, barSmoothValues,
                            barPeaks, barPeakTimes, spectrumHistory, docVars,
                            clock, ticks, pushLog, lastData, refused>>

-----------------------------------------------------------------------------
(* src/docs/app.js: AudioVisualizer with sigmoid shaping, band energies,   *)
(* the particle field and a history ring whose capacity follows the        *)
(* display mode                                                            *)

FullscreenHistoryLayers == 15
ConfiguredBarsDocs == 48
PeakThreshold == 15
MinVisible == 20
NoiseFloor == 40

\* usableRange and barWidth of animate() in docs/app.js
UsableRangeDocs == (BufferLength * 55) \div 100
BarWidthDocs == Max(1, UsableRangeDocs \div BarCount)
StartIndexDocs(i) == i * BarWidthDocs
EndIndexDocs(i) == Min(StartIndexDocs(i) + BarWidthDocs, UsableRangeDocs)

AverageDocs(data, i) ==
    (SumOver(data, StartIndexDocs(i), EndIndexDocs(i)) * FP)
        \div (EndIndexDocs(i) - StartIndexDocs(i))

\* sigmoidOutput * maxHeight of applySigmoidScaling for the byte levels 40 .. 255
\* (floor of 100 * FP / (1 + exp(-((raw - 40) / 215 * 255 - 55) * 0.03)))
SigmoidTable ==
    <<
       16110, 16597, 17096, 17606, 18128, 18662, 19208, 19766,
       20337, 20919, 21514, 22121, 22740, 23371, 24014, 24670,
       25337, 26016, 26707, 27409, 28122, 28847, 29583, 30330,
       31087, 31854, 32631, 33418, 34215, 35020, 35834, 36656,
       37486, 38324, 39168, 40019, 40876, 41739, 42606, 43479,
       44355, 45235, 46118, 47003, 47890, 48779, 49668, 50558,
       51447, 52335, 53222, 54107, 54989, 55868, 56743, 57614,
       58481, 59342, 60197, 61047, 61890, 62725, 63553, 64373,
       65185, 65988, 66782, 67567, 68342, 69106, 69861, 70605,
       71338, 72060, 72770, 73470, 74157, 74833, 75497, 76150,
       76790, 77418, 78034, 78638, 79229, 79809, 80376, 80931,
       81474, 82005, 82524, 83032, 83527, 84011, 84483, 84944,
       85393, 85831, 86259, 86675, 87080, 87476, 87860, 88235,
       88599, 88953, 89298, 89634, 89960, 90276, 90584, 90883,
       91174, 91456, 91730, 91996, 92254, 92504, 92747, 92983,
       93212, 93433, 93648, 93857, 94059, 94255, 94444, 94628,
       94806, 94978, 95145, 95307, 95464, 95615, 95762, 95904,
       96042, 96175, 96303, 96428, 96549, 96665, 96778, 96887,
       96993, 97095, 97193, 97289, 97381, 97470, 97556, 97640,
       97720, 97798, 97874, 97946, 98017, 98085, 98150, 98214,
       98275, 98335, 98392, 98447, 98501, 98552, 98602, 98650,
       98697, 98742, 98785, 98827, 98868, 98907, 98945, 98981,
       99016, 99050, 99083, 99115, 99146, 99175, 99204, 99231,
       99258, 99284, 99309, 99333, 99356, 99378, 99400, 99421,
       99441, 99460, 99479, 99497, 99515, 99531, 99548, 99563,
       99579, 99593, 99607, 99621, 99634, 99647, 99659, 99671,
       99683, 99694, 99704, 99715, 99724, 99734, 99743, 99752
    >>

\* applySigmoidScaling(rawLevel); a level between two bytes takes the lower byte's
\* sigmoid value
ApplySigmoidScaling(rawLevel) ==
    LET scaledHeight == SigmoidTable[(rawLevel \div FP) - (NoiseFloor - 1)]
        finalHeight == IF rawLevel > NoiseFloor * FP
                       THEN scaledHeight
                       ELSE (rawLevel * 5) \div NoiseFloor
    IN  Max(1 * FP, Min(100 * FP, finalHeight))

\* one pass of the bar loop of animate() for bar i, up to displayHeight
BarTrackDocs(data, i, now) ==
    LET barHeight == ApplySigmoidScaling(AverageDocs(data, i))
        s1 == Smooth(barSmoothValues[i], barHeight)
        pk == PeakStep(barPeaks[i], barPeakTimes[i], s1, now)
    IN  [smooth |-> DisplayHeight(s1, pk.peak), peak |-> pk.peak, time |-> pk.time,
         raw |-> barHeight]

\* updateRollingAverage(barIndex, currentValue)
UpdateRollingAverage(average, currentValue) ==
    (average * 95) \div 100 + (currentValue * 5) \div 100

\* spawnParticle with the capacity test off by one
SpawnParticleOffByOne(live, pool, barIndex, intensity, decay) ==
    IF Len(live) > MaxParticles
    THEN [live |-> live, pool |-> pool, spawned |-> FALSE]
    ELSE LET particle == [frequency |-> barIndex, life |-> FP, decay |-> decay,
                          size |-> 2 * FP + (intensity * 3) \div 100]
         IN  [live |-> Append(live, particle),
              pool |-> IF pool = <<>> THEN pool ELSE SubSeq(pool, 1, Len(pool) - 1),
              spawned |-> TRUE]

\* spawnParticle(barIndex, height, intensity): the live list and the pool after the
\* call.  The position and the velocity of a particle are drawn only and are left out.
SpawnParticle(live, pool, barIndex, intensity, decay) ==
    IF Len(live) >= MaxParticles
    THEN [live |-> live, pool |-> pool, spawned |-> FALSE]
    ELSE LET particle == [frequency |-> barIndex, life |-> FP, decay |-> decay,
                          size |-> 2 * FP + (intensity * 3) \div 100]
         IN  [live |-> Append(live, particle),
              pool |-> IF pool = <<>> THEN pool ELSE SubSeq(pool, 1, Len(pool) - 1),
              spawned |-> TRUE]

\* detectFrequencyPeaks with a raw value that may equal the threshold
DetectFrequencyPeaksInclusive(average, rawValue, displayHeight) ==
    rawValue >= average + PeakThreshold * FP /\ displayHeight > MinVisible * FP

\* detectFrequencyPeaks(barIndex, rawValue, displayHeight): is spawnParticle called
DetectFrequencyPeaks(average, rawValue, displayHeight) ==
    rawValue > average + PeakThreshold * FP /\ displayHeight > MinVisible * FP

RECURSIVE SpawnLoop(_, _, _, _, _, _, _)
\* the calls of detectFrequencyPeaks in the bar loop, bars i .. BarCount-1 in order;
\* used counts the particles spawned so far in this tick, lost the refused calls
SpawnLoop(i, track, rolling, live, pool, draws, acc) ==
    IF i >= BarCount
    THEN [live |-> live, pool |-> pool, used |-> acc.used, lost |-> acc.lost]
    ELSE IF DetectFrequencyPeaks(rolling[i], track[i].raw, track[i].smooth)
         THEN LET r == SpawnParticle(live, pool, i, track[i].raw,
                                     IF acc.used + 1 \in DOMAIN draws
                                     THEN draws[acc.used + 1] ELSE 0)
              IN  SpawnLoop(i + 1, track, rolling, r.live, r.pool, draws,
                            IF r.spawned
                            THEN [used |-> acc.used + 1, lost |-> acc.lost]
                            ELSE [used |-> acc.used, lost |-> acc.lost + 1])
         ELSE SpawnLoop(i + 1, track, rolling, live, pool, draws, acc)

RECURSIVE UpdateParticlesFrom(_, _, _)
\* updateParticles(): the loop from index i down to 1
UpdateParticlesFrom(i, live, pool) ==
    IF i < 1
    THEN [live |-> live, pool |-> pool]
    ELSE LET aged == [live[i] EXCEPT !.life = @ - live[i].decay]
         IN  IF aged.life <= 0
             THEN UpdateParticlesFrom(i - 1,
                      SubSeq(live, 1, i - 1) \o SubSeq(live, i + 1, Len(live)),
                      Append(pool, aged))
             ELSE UpdateParticlesFrom(i - 1, [live EXCEPT ![i] = aged], pool)

\* updateParticles() that ages the particles and removes none
UpdateParticlesKeepDead(live, pool) ==
    [live |-> [k \in DOMAIN live |-> [live[k] EXCEPT !.life = @ - live[k].decay]],
     pool |-> pool]

\* updateParticles() pushing every particle to the pool, dead or alive
UpdateParticlesPoolAll(live, pool) ==
    [live |-> UpdateParticlesFrom(Len(live), live, pool).live,
     pool |-> pool \o live]

\* updateParticles()
UpdateParticles(live, pool) == UpdateParticlesFrom(Len(live), live, pool)

\* calculateMusicEnergy(): the three band means and their mean
BassRangeOf(bars) == (bars * 2) \div 10
MidRangeOf(bars) == (bars * 6) \div 10
BassRange == BassRangeOf(BarCount)
MidRange == MidRangeOf(BarCount)

\* calculateMusicEnergy() without the division of the overall energy by 3
CalculateMusicEnergySum(bars) ==
    LET bass == SumOver(bars, 0, BassRange) \div BassRange
        mid == SumOver(bars, BassRange, MidRange) \div (MidRange - BassRange)
        treble == SumOver(bars, MidRange, BarCount) \div (BarCount - MidRange)
    IN  [bass |-> bass, mid |-> mid, treble |-> treble,
         music |-> bass + mid + treble]

CalculateMusicEnergy(bars) ==
    LET bass == SumOver(bars, 0, BassRange) \div BassRange
        mid == SumOver(bars, BassRange, MidRange) \div (MidRange - BassRange)
        treble == SumOver(bars, MidRange, BarCount) \div (BarCount - MidRange)
    IN  [bass |-> bass, mid |-> mid, treble |-> treble,
         music |-> (bass + mid + treble) \div 3]

\* updateSpectrumHistory() of docs/app.js: the capacity follows the display mode
UpdateSpectrumHistoryDocs(history, bars, full) ==
    LET h1 == <<bars>> \o history
        maxLayers == IF full THEN FullscreenHistoryLayers ELSE MaxHistoryLayers
    IN  IF Len(h1) > maxLayers THEN SubSeq(h1, 1, Len(h1) - 1) ELSE h1

\* the particles one tick spawns: the bars that detectFrequencyPeaks passes on,
\* as far as the live list has room
Spawns(data, now) ==
    LET track == [i \in Bars |-> BarTrackDocs(data, i, now)]
        hits == {i \in Bars :
                    DetectFrequencyPeaks(
                        UpdateRollingAverage(rollingAverages[i], track[i].raw),
                        track[i].raw, track[i].smooth)}
    IN  Min(Cardinality(hits), Max(0, MaxParticles - Len(particles)))

\* the body of animate() of docs/app.js once isRunning has been found true
AnimateDocs(data, now, pending, draws) ==
    LET track == [i \in Bars |-> BarTrackDocs(data, i, now)]
        bars == [i \in Bars |-> track[i].smooth]
        rolling == [i \in Bars |-> UpdateRollingAverage(rollingAverages[i], track[i].raw)]
        sp == SpawnLoop(0, track, rolling, particles, particlePool, draws,
                        [used |-> 0, lost |-> 0])
        en == CalculateMusicEnergy(bars)
        up == UpdateParticles(sp.live, sp.pool)
        id == NewFrame(pending)
    IN  /\ barSmoothValues' = bars
        /\ barPeaks' = [i \in Bars |-> track[i].peak]
        /\ barPeakTimes' = [i \in Bars |-> track[i].time]
        /\ rollingAverages' = rolling
        /\ bassEnergy' = en.bass
        /\ midEnergy' = en.mid
        /\ trebleEnergy' = en.treble
        /\ musicEnergy' = en.music
        /\ spectrumHistory' = UpdateSpectrumHistoryDocs(spectrumHistory, bars, fullscreen)
        /\ particles' = up.live
        /\ particlePool' = up.pool
        /\ animationId' = id
        /\ frames' = pending \cup {id}
        /\ ticks' = ticks + 1
        /\ pushLog' = <<bars>> \o pushLog
        /\ lastData' = data
        /\ refused' = Min(refused + sp.lost, 1)

\* start() of docs/app.js
StartDocs(snaps, dts, maxTicks) ==
    /\ audioReady
    /\ ticks < maxTicks
    /\ frames # FrameIds
    /\ UNCHANGED notViz
    /\ \E data \in snaps, dt \in dts :
       \E draws \in Draws(Spawns(data, clock + dt)) :
          /\ clock' = clock + dt
          /\ isRunning' = TRUE
          /\ AnimateDocs(data, clock + dt, frames, draws)
    /\ lastOp' = IF isRunning THEN "start" ELSE "coldStart"
    /\ UNCHANGED <<audioReady, fullscreen>>

\* stop() of docs/app.js, on the visualizer's own state
StopDocsOp ==
    /\ isRunning' = FALSE
    /\ animationId' = 0
    /\ frames' = frames \ {animationId}
    /\ barSmoothValues' = [i \in Bars |-> 0]
    /\ spectrumHistory' = <<>>
    /\ particles' = <<>>
    /\ rollingAverages' = [i \in Bars |-> 0]
    /\ musicEnergy' = 0
    /\ bassEnergy' = 0
    /\ midEnergy' = 0
    /\ trebleEnergy' = 0
    /\ pushLog' = <<>>
    /\ lastOp' = IF lastOp \in StopOps THEN "stopAgain" ELSE "stop"
    /\ UNCHANGED <<audioReady, barPeaks, barPeakTimes, particlePool, fullscreen,
                   clock, ticks, lastData, refused>>

\* stop() of docs/app.js
StopDocs == StopDocsOp /\ UNCHANGED notViz

\* a pending animation-frame callback runs animate() of docs/app.js
FrameDocs(snaps, dts, maxTicks) ==
    /\ UNCHANGED notViz
    /\ \E id \in frames :
        IF isRunning
        THEN /\ ticks < maxTicks
             /\ \E data \in snaps, dt \in dts :
                \E draws \in Draws(Spawns(data, clock + dt)) :
                   /\ clock' = clock + dt
                   /\ AnimateDocs(data, clock + dt, frames \ {id}, draws)
             /\ lastOp' = "frame"
             /\ UNCHANGED <<audioReady, isRunning, fullscreen>>
        ELSE /\ frames' = frames \ {id}
             /\ lastOp' = "frame"
             /\ UNCHANGED <<audioReady, isRunning, animationId, barSmoothValues,
                            barPeaks, barPeakTimes, spectrumHistory, docVars,
                            clock, ticks, pushLog, lastData, refused>>

\* enterFullscreen() succeeds: the body gets the class fullscreen-mode
EnterFullscreen ==
    /\ ~fullscreen
    /\ UNCHANGED notViz
    /\ fullscreen' = TRUE
    /\ lastOp' = "enterFullscreen"
    /\ UNCHANGED <<vizVars, particles, particlePool, rollingAverages, energyVars,
                   clock, ticks, pushLog, lastData, refused>>

\* the fullscreenchange listener, on leaving fullscreen: the class is removed
ExitFullscreen ==
    /\ fullscreen
    /\ UNCHANGED notViz
    /\ fullscreen' = FALSE
    /\ lastOp' = "exitFullscreen"
    /\ UNCHANGED <<vizVars, particles, particlePool, rollingAverages, energyVars,
                   clock, ticks, pushLog, lastData, refused>>

-----------------------------------------------------------------------------
(* src/channel-meters.js: ChannelMeters, one level per stereo channel       *)

NoiseGate == 25
HistorySize == 3

\* a pair of snapshots, left and right
StereoPairs == {<<ConstSnap(100), ConstSnap(ByteMax)>>,
                <<ConstSnap(70), ConstSnap(100)>>}

\* floor of (p / 100)^0.6 * 100 * FP for p = 0 .. 95
CurveTable ==
    <<0, 6309, 9563, 12197, 14495, 16572, 18488, 20279,
       21971, 23580, 25118, 26597, 28022, 29401, 30738, 32037,
       33302, 34535, 35740, 36919, 38073, 39204, 40313, 41403,
       42474, 43527, 44563, 45584, 46590, 47581, 48559, 49524,
       50476, 51417, 52346, 53264, 54172, 55070, 55959, 56837,
       57707, 58569, 59422, 60267, 61104, 61933, 62755, 63570,
       64379, 65180, 65975, 66763, 67546, 68322, 69093, 69858,
       70617, 71371, 72120, 72863, 73602, 74335, 75064, 75788,
       76508, 77223, 77933, 78640, 79342, 80040, 80734, 81424,
       82110, 82793, 83471, 84146, 84818, 85485, 86150, 86811,
       87468, 88123, 88774, 89422, 90067, 90709, 91348, 91983,
       92616, 93246, 93874, 94498, 95120, 95739, 96355, 96969>>

\* Math.pow(percentage / 100, 0.6) * 100, linear between whole percents
PerceptualCurve(pct) ==
    LET p == pct \div FP
        r == pct % FP
    IN  IF p >= 95 THEN CurveTable[96]
        ELSE CurveTable[p + 1] + ((CurveTable[p + 2] - CurveTable[p + 1]) * r) \div FP

RECURSIVE SqrtSearch(_, _, _)
\* the largest r in lo .. hi with r * r <= n
SqrtSearch(n, lo, hi) ==
    IF lo >= hi THEN lo
    ELSE LET mid == (lo + hi + 1) \div 2
         IN  IF mid * mid <= n THEN SqrtSearch(n, mid, hi)
             ELSE SqrtSearch(n, lo, mid - 1)

\* Math.sqrt on squares of tenths of a byte level
Sqrt(n) == SqrtSearch(n, 0, ByteMax * 10)

CleanLevelRaw(rawLevel, baseline) == rawLevel * FP

\* Math.max(0, rawLevel - baseline)
CleanLevel(rawLevel, baseline) == Max(0, rawLevel * FP - baseline)

\* calculateFilteredRMS(): the level returned and the channel's history after
CalculateFilteredRMS(data, baseline, history) ==
    LET clean == [j \in Bins |-> CleanLevel(data[j], baseline)]
        valid == {j \in Bins : clean[j] > NoiseGate * FP}
        tenth == FP \div 10
        sq == [j \in Bins |-> IF j \in valid
                               THEN (clean[j] \div tenth) * (clean[j] \div tenth)
                               ELSE 0]
        rms == Sqrt(SumOver(sq, 0, BufferLength) \div Cardinality(valid))
        p0 == (rms * 200 * FP) \div (ByteMax * 10)
        p1 == IF p0 > 80 * FP THEN 80 * FP + ((p0 - 80 * FP) * 3) \div 10 ELSE p0
        percentage == PerceptualCurve(Min(95 * FP, p1))
        h0 == Append(history, percentage)
        h1 == IF Len(h0) > HistorySize THEN Tail(h0) ELSE h0
        recentAvg == (h1[Len(h1) - 1] + h1[Len(h1)]) \div 2
    IN  IF Cardinality(valid) < 3 THEN [level |-> 0, history |-> history]
        ELSE IF rms * 100 < 2 * ByteMax * 10 THEN [level |-> 0, history |-> history]
        ELSE IF Len(h1) < 2 THEN [level |-> percentage, history |-> h1]
        ELSE IF percentage > recentAvg
        THEN [level |-> Max(0, (percentage * 4 + recentAvg * 6) \div 10),
              history |-> h1]
        ELSE [level |-> Max(0, (percentage * 6 + recentAvg * 4) \div 10),
              history |-> h1]

\* updateBar(): the width shown
UpdateBar(level) == Min(100 * FP, Max(0, level))

\* the snapshot equals the baseline in every bin
AtBaseline(data, baseline) == \A j \in Bins : data[j] * FP = baseline

\* the body of animate() once isRunning has been found true
\* the snapshots the second run reads when the first reads pair
TwinOf(pair) == IF Len(pair) = 4 THEN <<pair[3], pair[4]>> ELSE pair

\* the second run reads its snapshots
TwinReads(pair, t) ==
    [t EXCEPT !.sameLeft = @ /\ TwinOf(pair)[1] = pair[1],
              !.sameRight = @ /\ TwinOf(pair)[2] = pair[2]]

StereoLevelsShared(pair, lb, rb, lh, rh) ==
    [l |-> CalculateFilteredRMS(pair[1], Max(lb, rb), lh),
     r |-> CalculateFilteredRMS(pair[2], Max(lb, rb), rh)]

\* the two calls of calculateFilteredRMS in animate()
StereoLevels(pair, lb, rb, lh, rh) ==
    [l |-> CalculateFilteredRMS(pair[1], lb, lh),
     r |-> CalculateFilteredRMS(pair[2], rb, rh)]

\* animate() in the second run
TwinAnimate(pair, t) ==
    LET lv == StereoLevels(TwinOf(pair), t.leftBaseline, t.rightBaseline,
                           t.leftHistory, t.rightHistory)
    IN  [TwinReads(pair, t) EXCEPT !.leftHistory = lv.l.history,
                                   !.rightHistory = lv.r.history,
                                   !.out = <<lv.l.level, lv.r.level>>]

AnimateMeters(pair, pending, lb, rb) ==
    LET lv == StereoLevels(pair, lb, rb, leftHistory, rightHistory)
        l == lv.l
        r == lv.r
        id == NewFrame(pending)
    IN  /\ leftHistory' = l.history
        /\ rightHistory' = r.history
        /\ leftBarWidth' = UpdateBar(l.level)
        /\ rightBarWidth' = UpdateBar(r.level)
        /\ mAnimationId' = id
        /\ mFrames' = pending \cup {id}
        /\ mTicks' = mTicks + 1
        /\ mOut' = <<l.level, r.level>>
        /\ mSame' = <<IF AtBaseline(pair[1], lb) THEN Min(3, mSame[1] + 1) ELSE 0,
                      IF AtBaseline(pair[2], rb) THEN Min(3, mSame[2] + 1) ELSE 0>>

\* initAudio() of the meters
InitAudioMeters ==
    /\ ~mAudioReady
    /\ mAudioReady' = TRUE
    /\ mLastOp' = "initAudio"
    /\ UNCHANGED <<mIsRunning, mAnimationId, mFrames, leftBaseline, rightBaseline,
                   mCalibrationSamples, leftHistory, rightHistory, leftBarWidth,
                   rightBarWidth, mTimers, mTicks, mOut, mSame, staleSample, twin>>
    /\ UNCHANGED notMeters

\* start(): calibrateBaseline() and then animate(); the analysers must exist
StartMeters(pairs, maxTicks) ==
    /\ mAudioReady
    /\ mTicks < maxTicks
    /\ mFrames # FrameIds
    /\ mIsRunning' = TRUE
    /\ leftBaseline' = 0
    /\ rightBaseline' = 0
    /\ mCalibrationSamples' = 0
    /\ mTimers' = [mTimers EXCEPT !.live = @ + 1]
    /\ \E pair \in pairs :
          /\ AnimateMeters(pair, mFrames, 0, 0)
          /\ twin' = TwinAnimate(pair, [twin EXCEPT !.leftBaseline = 0,
                                                    !.rightBaseline = 0])
    /\ mLastOp' = "start"
    /\ UNCHANGED <<mAudioReady, staleSample>>
    /\ UNCHANGED notMeters

StopMetersToggle ==
    /\ mIsRunning' = ~mIsRunning
    /\ mAnimationId' = 0
    /\ mFrames' = mFrames \ {mAnimationId}
    /\ leftBarWidth' = 0
    /\ rightBarWidth' = 0
    /\ leftHistory' = <<>>
    /\ rightHistory' = <<>>
    /\ mTimers' = [live |-> 0, stale |-> mTimers.live + mTimers.stale]
    /\ mSame' = <<0, 0>>
    /\ mLastOp' = IF mLastOp \in StopOps THEN "stopAgain" ELSE "stop"
    /\ twin' = [twin EXCEPT !.leftHistory = <<>>, !.rightHistory = <<>>]
    /\ UNCHANGED <<mAudioReady, leftBaseline, rightBaseline, mCalibrationSamples,
                   mTicks, mOut, staleSample>>

\* stop() of the meters, on the meters' own state; no timer is cleared
StopMetersOp ==
    /\ mIsRunning' = FALSE
    /\ mAnimationId' = 0
    /\ mFrames' = mFrames \ {mAnimationId}
    /\ leftBarWidth' = 0
    /\ rightBarWidth' = 0
    /\ leftHistory' = <<>>
    /\ rightHistory' = <<>>
    /\ mTimers' = [live |-> 0, stale |-> mTimers.live + mTimers.stale]
    /\ mSame' = <<0, 0>>
    /\ mLastOp' = IF mLastOp \in StopOps THEN "stopAgain" ELSE "stop"
    /\ twin' = [twin EXCEPT !.leftHistory = <<>>, !.rightHistory = <<>>]
    /\ UNCHANGED <<mAudioReady, leftBaseline, rightBaseline, mCalibrationSamples,
                   mTicks, mOut, staleSample>>

\* stop() of the meters
StopMeters == StopMetersOp /\ UNCHANGED notMeters

\* a pending animation-frame callback runs animate() of the meters
FrameMeters(pairs, maxTicks) ==
    /\ UNCHANGED notMeters
    /\ \E id \in mFrames :
        IF mIsRunning
        THEN /\ mTicks < maxTicks
             /\ \E pair \in pairs :
                   /\ AnimateMeters(pair, mFrames \ {id}, leftBaseline,
                                    rightBaseline)
                   /\ twin' = TwinAnimate(pair, twin)
             /\ mLastOp' = "frame"
             /\ UNCHANGED <<mAudioReady, mIsRunning, leftBaseline, rightBaseline,
                            mCalibrationSamples, mTimers, staleSample>>
        ELSE /\ mFrames' = mFrames \ {id}
             /\ mLastOp' = "frame"
             /\ UNCHANGED <<mAudioReady, mIsRunning, mAnimationId, leftBaseline,
                            rightBaseline, mCalibrationSamples, leftHistory,
                            rightHistory, leftBarWidth, rightBarWidth, mTimers,
                            mTicks, mOut, mSame, staleSample, twin>>

\* Math.max(baseline, avg * 0.7) over one snapshot
RaiseBaseline(baseline, data) ==
    Max(baseline, ((SumOver([j \in Bins |-> data[j] * FP], 0, BufferLength)
                      \div BufferLength) * 7) \div 10)

\* a pending calibrate callback of calibrateBaseline() runs
Calibrate(pairs) ==
    /\ UNCHANGED notMeters
    /\ \E k \in {"live", "stale"} :
        /\ mTimers[k] > 0
        /\ IF mCalibrationSamples < CalibrationTarget /\ mIsRunning
           THEN /\ \E pair \in pairs :
                      /\ leftBaseline' = RaiseBaseline(leftBaseline, pair[1])
                      /\ rightBaseline' = RaiseBaseline(rightBaseline, pair[2])
                      /\ twin' = [TwinReads(pair, twin) EXCEPT
                                    !.leftBaseline =
                                        RaiseBaseline(@, TwinOf(pair)[1]),
                                    !.rightBaseline =
                                        RaiseBaseline(@, TwinOf(pair)[2])]
                /\ mCalibrationSamples' = mCalibrationSamples + 1
                /\ staleSample' = (staleSample \/ k = "stale")
                /\ mSame' = <<0, 0>>
                /\ UNCHANGED mTimers
           ELSE /\ mTimers' = [mTimers EXCEPT ![k] = @ - 1]
                /\ UNCHANGED <<leftBaseline, rightBaseline, mCalibrationSamples,
                               staleSample, mSame, twin>>
        /\ mLastOp' = "calibrate"
        /\ UNCHANGED <<mAudioReady, mIsRunning, mAnimationId, mFrames, leftHistory,
                       rightHistory, leftBarWidth, rightBarWidth, mTicks, mOut>>

InitMeters ==
    /\ mAudioReady = FALSE
    /\ mIsRunning = FALSE
    /\ mAnimationId = 0
    /\ mFrames = {}
    /\ leftBaseline = 0
    /\ rightBaseline = 0
    /\ mCalibrationSamples = 0
    /\ leftHistory = <<>>
    /\ rightHistory = <<>>
    /\ leftBarWidth = 0
    /\ rightBarWidth = 0
    /\ mTimers = [live |-> 0, stale |-> 0]
    /\ mLastOp = "new"
    /\ mTicks = 0
    /\ mOut = <<0, 0>>
    /\ mSame = <<0, 0>>
    /\ staleSample = FALSE
    /\ twin = [leftBaseline |-> 0, rightBaseline |-> 0, leftHistory |-> <<>>,
               rightHistory |-> <<>>, out |-> <<0, 0>>, sameLeft |-> TRUE,
               sameRight |-> TRUE]

-----------------------------------------------------------------------------
(* src/unnamed/part_000: AudioVisualizer with the noise profile, automatic  *)
(* and manual calibration and the stored profile                            *)

\* an array field that may be null; at is all zero when it is
NullArray == [null |-> TRUE, at |-> [j \in Bins |-> 0]]
Array(f) == [null |-> FALSE, at |-> f]
Zeros == Array([j \in Bins |-> 0])

\* the decimal numeral JSON.stringify writes for a non-negative number, and the
\* number JSON.parse reads from it
Numeral(x) == [int |-> x \div FP, frac |-> x % FP]
Number(n) == n.int * FP + n.frac

\* JSON.stringify({timestamp, noiseProfile}): the text has the values in order
Stringify(timestamp, noiseProfile) ==
    [timestamp |-> timestamp,
     noiseProfile |-> [k \in 1 .. BufferLength |-> Numeral(noiseProfile[k - 1])]]

\* JSON.parse of such a text
Parse(text) ==
    [timestamp |-> text.timestamp,
     noiseProfile |-> [j \in Bins |-> Number(text.noiseProfile[j + 1])]]

\* localStorage without the item, and with it
NoItem == [present |-> FALSE, text |-> Stringify(0, Zeros.at)]
Item(text) == [present |-> TRUE, text |-> text]

\* 7 * 24 * 60 * 60 * 1000
ProfileTtl == 7 * 24 * 60 * 60 * 1000

FreshInclusive(age) == age <= ProfileTtl

\* age < 7 * 24 * 60 * 60 * 1000
Fresh(age) == age < ProfileTtl

\* noiseAverage of animate() for bar i
NoiseAverage(bg, i) ==
    IF bg.null THEN 0
    ELSE SumOver(bg.at, StartIndex(i), EndIndex(i)) \div (EndIndex(i) - StartIndex(i))

\* one pass of the bar loop of animate() for bar i while no capture is active
BarTrackNoise(data, i, now, bg) ==
    LET barHeight == ProcessAudioLevel(Average(data, i), NoiseAverage(bg, i))
        s1 == Smooth(barSmoothValues[i], barHeight)
        pk == PeakStep(barPeaks[i], barPeakTimes[i], s1, now)
    IN  [smooth |-> s1, peak |-> pk.peak, time |-> pk.time]

RECURSIVE MaxOfSamples(_, _)
\* the largest value the samples hold for one bin
MaxOfSamples(samples, j) ==
    IF samples = <<>> THEN 0
    ELSE Max(Head(samples)[j], MaxOfSamples(Tail(samples), j))

\* processCalibrationSamples(): the rebuilt profile
ProcessCalibrationSamples(samples) ==
    Array([j \in Bins |-> IF j < UsableRange
                          THEN (MaxOfSamples(samples, j) * FP * 9) \div 10
                          ELSE 0])

\* recordCalibrationSample() that stops one sample late
RecordCalibrationSampleLate(data, active, samples, bg) ==
    LET s1 == Append(samples, data)
    IN  IF ~active
        THEN [active |-> FALSE, samples |-> samples, bg |-> bg, stored |-> FALSE]
        ELSE IF Len(s1) > CalibrationWindow
        THEN [active |-> FALSE, samples |-> s1,
              bg |-> ProcessCalibrationSamples(s1), stored |-> TRUE]
        ELSE [active |-> TRUE, samples |-> s1, bg |-> bg, stored |-> FALSE]

\* recordCalibrationSample() and, at the last sample, stopManualCalibration()
\* from inside animate(): the capture flag, the samples, the profile and whether
\* the profile was saved
RecordCalibrationSample(data, active, samples, bg) ==
    LET s1 == Append(samples, data)
    IN  IF ~active
        THEN [active |-> FALSE, samples |-> samples, bg |-> bg, stored |-> FALSE]
        ELSE IF Len(s1) >= CalibrationWindow
        THEN [active |-> FALSE, samples |-> s1,
              bg |-> ProcessCalibrationSamples(s1), stored |-> TRUE]
        ELSE [active |-> TRUE, samples |-> s1, bg |-> bg, stored |-> FALSE]

\* saveNoiseProfile() at the time now, or nothing; an exception of setItem is caught
SaveNoiseProfile(stored, now, bg) ==
    /\ storage' = IF stored /\ ~storageBroken
                  THEN Item(Stringify(now, bg.at)) ELSE storage
    /\ saved' = IF stored /\ ~storageBroken
                THEN [present |-> TRUE, timestamp |-> now, noiseProfile |-> bg.at]
                ELSE saved

\* the body of animate() once isRunning has been found true; active, samples, bg
\* and built are the fields as the caller has left them
AnimateNoise(data, now, pending, active, samples, bg, built) ==
    LET rec == RecordCalibrationSample(data, active, samples, bg)
        track == [i \in Bars |-> BarTrackNoise(data, i, now, rec.bg)]
        id == NewFrame(pending)
    IN  /\ manualCalibrationActive' = rec.active
        /\ calibrationSamples' = rec.samples
        /\ backgroundNoise' = rec.bg
        /\ SaveNoiseProfile(rec.stored, now, rec.bg)
        /\ manualBuilt' = (built \/ rec.stored)
        /\ IF rec.active
           THEN UNCHANGED <<barSmoothValues, barPeaks, barPeakTimes>>
           ELSE /\ barSmoothValues' = [i \in Bars |-> track[i].smooth]
                /\ barPeaks' = [i \in Bars |-> track[i].peak]
                /\ barPeakTimes' = [i \in Bars |-> track[i].time]
        /\ animationId' = id
        /\ frames' = pending \cup {id}
        /\ ticks' = ticks + 1
        /\ lastData' = data

\* initAudio() of this variant: a null profile becomes an array of zeros
InitAudioNoise ==
    /\ ~audioReady
    /\ audioReady' = TRUE
    /\ backgroundNoise' = IF backgroundNoise.null THEN Zeros ELSE backgroundNoise
    /\ lastOp' = "initAudio"
    /\ UNCHANGED <<isRunning, animationId, frames, barSmoothValues, barPeaks,
                   barPeakTimes, clock, ticks, lastData, noiseCalibrationCount,
                   manualCalibrationActive, calibrationSamples, noiseTimers,
                   storage, noiseGhost>>
    /\ UNCHANGED <<notNoise, storageBroken>>

\* the test of start() looking for a missing profile only
NeedsCalibrationNullOnly(bg) == bg.null

\* the test of start(): !backgroundNoise || backgroundNoise.every(val => val === 0)
NeedsCalibration(bg) == bg.null \/ \A j \in Bins : bg.at[j] = 0

\* start(): calibrateNoise() when the profile is null or all zero, then animate()
StartNoise(snaps, dts, maxTicks) ==
    LET calibrate == NeedsCalibration(backgroundNoise)
    IN  /\ audioReady
        /\ ticks < maxTicks
        /\ frames # FrameIds
        /\ isRunning' = TRUE
        /\ noiseCalibrationCount' = IF calibrate THEN 0 ELSE noiseCalibrationCount
        /\ noiseTimers' = IF calibrate THEN noiseTimers + 1 ELSE noiseTimers
        /\ \E data \in snaps, dt \in dts :
              /\ clock' = clock + dt
              /\ AnimateNoise(data, clock + dt, frames, manualCalibrationActive,
                              calibrationSamples,
                              IF calibrate THEN Zeros ELSE backgroundNoise,
                              IF calibrate THEN FALSE ELSE manualBuilt)
        /\ lastOp' = IF isRunning THEN "start" ELSE "coldStart"
        /\ UNCHANGED <<audioReady, loadOk, reloads, autoWroteManual>>
        /\ UNCHANGED <<notNoise, storageBroken>>

\* stop() of this variant; no timer is cleared
StopNoise ==
    /\ isRunning' = FALSE
    /\ animationId' = 0
    /\ frames' = frames \ {animationId}
    /\ barSmoothValues' = [i \in Bars |-> 0]
    /\ lastOp' = IF lastOp \in StopOps THEN "stopAgain" ELSE "stop"
    /\ UNCHANGED <<audioReady, barPeaks, barPeakTimes, clock, ticks, lastData,
                   noiseVars, noiseGhost>>
    /\ UNCHANGED <<notNoise, storageBroken>>

\* a pending animation-frame callback runs animate() of this variant
FrameNoise(snaps, dts, maxTicks) ==
    /\ UNCHANGED <<notNoise, storageBroken>>
    /\ \E id \in frames :
        IF isRunning
        THEN /\ ticks < maxTicks
             /\ \E data \in snaps, dt \in dts :
                   /\ clock' = clock + dt
                   /\ AnimateNoise(data, clock + dt, frames \ {id},
                                   manualCalibrationActive, calibrationSamples,
                                   backgroundNoise, manualBuilt)
             /\ lastOp' = "frame"
             /\ UNCHANGED <<audioReady, isRunning, noiseCalibrationCount,
                            noiseTimers, loadOk, reloads, autoWroteManual>>
        ELSE /\ frames' = frames \ {id}
             /\ lastOp' = "frame"
             /\ UNCHANGED <<audioReady, isRunning, animationId, barSmoothValues,
                            barPeaks, barPeakTimes, clock, ticks, lastData,
                            noiseVars, noiseGhost>>

\* the assignment of calibrateStep without the maximum
CalibrateBinOverwrite(old, byte) == (byte * FP * 8) \div 10

\* the assignment of calibrateStep to one bin below the usable range
CalibrateBin(old, byte) == Max(old, (byte * FP * 8) \div 10)

\* one sample of calibrateStep without the zeroing at and above the usable range
CalibrateSampleAllBins(bg, data) ==
    Array([j \in Bins |-> CalibrateBin(bg.at[j], data[j])])

\* one sample of calibrateStep: max with 0.8 of the snapshot below the usable
\* range of the profile, zero at and above it
CalibrateSample(bg, data) ==
    Array([j \in Bins |-> IF j < UsableRange
                          THEN CalibrateBin(bg.at[j], data[j])
                          ELSE 0])

\* a pending calibrateStep callback of calibrateNoise() runs; reading the length
\* of a null profile throws and ends the chain
CalibrateStep(snaps) ==
    /\ UNCHANGED <<notNoise, storageBroken>>
    /\ noiseTimers > 0
    /\ IF noiseCalibrationCount < NoiseCalibrationTarget /\ isRunning
       THEN IF backgroundNoise.null
            THEN /\ noiseTimers' = noiseTimers - 1
                 /\ UNCHANGED <<backgroundNoise, noiseCalibrationCount,
                                autoWroteManual>>
            ELSE /\ \E data \in snaps :
                        backgroundNoise' = CalibrateSample(backgroundNoise, data)
                 /\ noiseCalibrationCount' = noiseCalibrationCount + 1
                 /\ autoWroteManual' = (autoWroteManual \/ manualBuilt)
                 /\ UNCHANGED noiseTimers
       ELSE /\ noiseTimers' = noiseTimers - 1
            /\ UNCHANGED <<backgroundNoise, noiseCalibrationCount, autoWroteManual>>
    /\ lastOp' = "calibrateStep"
    /\ UNCHANGED <<vizVars, clock, ticks, lastData, manualCalibrationActive,
                   calibrationSamples, storage, saved, loadOk, reloads,
                   manualBuilt>>

\* startManualCalibration() with the audio initialised: it opens the capture
\* window and calls animate(), also when a loop is already running
StartManualCalibration(snaps, dts, maxTicks) ==
    /\ UNCHANGED <<notNoise, storageBroken>>
    /\ audioReady
    /\ ticks < maxTicks
    /\ frames # FrameIds
    /\ isRunning' = TRUE
    /\ \E data \in snaps, dt \in dts :
          /\ clock' = clock + dt
          /\ AnimateNoise(data, clock + dt, frames, TRUE, <<>>, backgroundNoise,
                          manualBuilt)
    /\ lastOp' = "startManualCalibration"
    /\ UNCHANGED <<audioReady, noiseCalibrationCount, noiseTimers, loadOk,
                   reloads, autoWroteManual>>

\* stopManualCalibration() called by the operator
StopManualCalibration ==
    LET rebuilt == Len(calibrationSamples) > 0
        bg == IF rebuilt THEN ProcessCalibrationSamples(calibrationSamples)
              ELSE backgroundNoise
    IN  /\ UNCHANGED <<notNoise, storageBroken>>
        /\ manualCalibrationActive' = FALSE
        /\ backgroundNoise' = bg
        /\ SaveNoiseProfile(rebuilt, clock, bg)
        /\ manualBuilt' = (manualBuilt \/ rebuilt)
        /\ IF ~isRunning
           THEN /\ animationId' = 0
                /\ frames' = frames \ {animationId}
                /\ barSmoothValues' = [i \in Bars |-> 0]
           ELSE UNCHANGED <<animationId, frames, barSmoothValues>>
        /\ lastOp' = "stopManualCalibration"
        /\ UNCHANGED <<audioReady, isRunning, barPeaks, barPeakTimes,
                       spectrumHistory, clock, ticks, lastData,
                       noiseCalibrationCount, calibrationSamples, noiseTimers,
                       loadOk, reloads, autoWroteManual>>

\* clearStoredNoiseProfile(): an exception of removeItem skips the assignment
\* that follows it in the try block
ClearStoredNoiseProfile ==
    /\ UNCHANGED <<notNoise, storageBroken>>
    /\ IF storageBroken
       THEN /\ lastOp' = "clearFailed"
            /\ UNCHANGED <<storage, backgroundNoise, saved, manualBuilt>>
       ELSE /\ storage' = NoItem
            /\ backgroundNoise' = NullArray
            /\ saved' = [present |-> FALSE, timestamp |-> 0,
                         noiseProfile |-> Zeros.at]
            /\ manualBuilt' = FALSE
            /\ lastOp' = "clearStoredNoiseProfile"
    /\ UNCHANGED <<vizVars, clock, ticks, lastData, noiseCalibrationCount,
                   manualCalibrationActive, calibrationSamples, noiseTimers,
                   loadOk, reloads, autoWroteManual>>

\* loadStoredNoiseProfile() at the time now: the profile and the value returned;
\* an exception of getItem is caught and ends in the assignment of null
LoadStoredNoiseProfile(item, now) ==
    IF ~storageBroken /\ item.present /\ Fresh(now - Parse(item.text).timestamp)
    THEN [bg |-> Array(Parse(item.text).noiseProfile), ok |-> TRUE]
    ELSE [bg |-> NullArray, ok |-> FALSE]

\* the page is loaded again after a wait: the constructor runs on a new
\* component, every callback of the old page is gone, localStorage stays
Reload(waits) ==
    /\ UNCHANGED <<notNoise, storageBroken>>
    /\ reloads < MaxReloads
    /\ reloads' = reloads + 1
    /\ \E wait \in waits :
          /\ clock' = clock + wait
          /\ backgroundNoise' = LoadStoredNoiseProfile(storage, clock + wait).bg
          /\ loadOk' = LoadStoredNoiseProfile(storage, clock + wait).ok
          /\ manualBuilt' = LoadStoredNoiseProfile(storage, clock + wait).ok
    /\ audioReady' = FALSE
    /\ isRunning' = FALSE
    /\ animationId' = 0
    /\ frames' = {}
    /\ barSmoothValues' = [i \in Bars |-> 0]
    /\ barPeaks' = [i \in Bars |-> 0]
    /\ barPeakTimes' = [i \in Bars |-> 0]
    /\ noiseCalibrationCount' = 0
    /\ manualCalibrationActive' = FALSE
    /\ calibrationSamples' = <<>>
    /\ noiseTimers' = 0
    /\ lastOp' = IF storageBroken THEN "reloadFailed" ELSE "reload"
    /\ UNCHANGED <<ticks, lastData, storage, saved, autoWroteManual>>

\* localStorage becomes unavailable: from now on every access throws
BreakStorage ==
    /\ ~storageBroken
    /\ storageBroken' = TRUE
    /\ UNCHANGED <<vizVars, docVars, clock, ghostVars, meterVars, meterGhost,
                   shaperVars, bucketVars, backgroundNoise, noiseCalibrationCount,
                   manualCalibrationActive, calibrationSamples, noiseTimers,
                   storage, noiseGhost>>

InitNoise ==
    /\ storageBroken = FALSE
    /\ backgroundNoise = NullArray
    /\ noiseCalibrationCount = 0
    /\ manualCalibrationActive = FALSE
    /\ calibrationSamples = <<>>
    /\ noiseTimers = 0
    /\ storage = NoItem
    /\ saved = [present |-> FALSE, timestamp |-> 0, noiseProfile |-> Zeros.at]
    /\ loadOk = FALSE
    /\ reloads = 0
    /\ manualBuilt = FALSE
    /\ autoWroteManual = FALSE

-----------------------------------------------------------------------------
(* The level shapers as functions of one raw average and one noise average  *)

\* averages of byte levels, ShaperDiv of them per byte
RawLevels == {(k * FP) \div ShaperDiv : k \in 0 .. (ByteMax * ShaperDiv)}
\* noise averages: whole byte levels
NoiseLevels == {k * FP : k \in 0 .. ByteMax}

\* one call of each variant of processAudioLevel on the same raw average
Shape ==
    /\ ~shDone
    /\ shDone' = TRUE
    /\ shOut' = [linear |-> ProcessAudioLevel(shRaw, shNoise),
                 plain |-> ProcessAudioLevel3D(shRaw),
                 sigmoid |-> ApplySigmoidScaling(shRaw)]
    /\ UNCHANGED <<shRaw, shNoise, vizVars, docVars, clock, ghostVars, meterVars,
                   meterGhost, noiseVars, noiseGhost, bucketVars>>

\* one pass of the bar loop of animate(): startIndex and endIndex of bar i
Bucket ==
    /\ loopIndex < barCount
    /\ barRanges' = Append(barRanges,
                           [startIndex |-> StartIndexOf(bufferLength, barCount, loopIndex),
                            endIndex |-> EndIndexOf(bufferLength, barCount, loopIndex)])
    /\ loopIndex' = loopIndex + 1
    /\ UNCHANGED <<bufferLength, barCount, vizVars, docVars, clock, ghostVars,
                   meterVars, meterGhost, shaperVars, noiseVars, noiseGhost>>

-----------------------------------------------------------------------------
(* Initial state and specifications *)

\* the state after the constructor; the clock is far from the zero timestamps
InitViz ==
    /\ audioReady = FALSE
    /\ isRunning = FALSE
    /\ animationId = 0
    /\ frames = {}
    /\ barSmoothValues = [i \in Bars |-> 0]
    /\ barPeaks = [i \in Bars |-> 0]
    /\ barPeakTimes = [i \in Bars |-> 0]
    /\ spectrumHistory = <<>>

InitDocs ==
    /\ particles = <<>>
    /\ particlePool = <<>>
    /\ rollingAverages = [i \in Bars |-> 0]
    /\ musicEnergy = 0
    /\ bassEnergy = 0
    /\ midEnergy = 0
    /\ trebleEnergy = 0
    /\ fullscreen = FALSE

InitGhost ==
    /\ lastOp = "new"
    /\ ticks = 0
    /\ pushLog = <<>>
    /\ lastData = ConstSnap(0)
    /\ refused = 0

InitShaper(raw, noise) ==
    /\ shRaw = raw
    /\ shNoise = noise
    /\ shOut = [linear |-> 0, plain |-> 0, sigmoid |-> 0]
    /\ shDone = FALSE

InitBucket(n, bars) ==
    /\ bufferLength = n
    /\ barCount = bars
    /\ loopIndex = 0
    /\ barRanges = <<>>

Init ==
    /\ InitViz
    /\ InitDocs
    /\ InitGhost
    /\ clock = 1000
    /\ InitMeters
    /\ InitShaper(0, 0)
    /\ InitNoise
    /\ InitBucket(BufferLength, BarCount)

StartV == Start3D(Snapshots, Dts, MaxTicks)
FrameV == Frame3D(Snapshots, Dts, MaxTicks)
Next == InitAudio \/ StartV \/ Stop3D \/ FrameV
Spec == Init /\ [][Next]_vars

StartRing == Start3D(RingSnapshots, RingDts, MaxRingTicks)
FrameRing == Frame3D(RingSnapshots, RingDts, MaxRingTicks)
NextRing == InitAudio \/ StartRing \/ Stop3D \/ FrameRing
SpecRing == Init /\ [][NextRing]_vars

DocsSnapshots == {ConstSnap(0), ConstSnap(ByteMax), StepSnap(ByteMax)}
DocsDts == {FrameMs}
StartD == StartDocs(DocsSnapshots, DocsDts, MaxDocsTicks)
FrameD == FrameDocs(DocsSnapshots, DocsDts, MaxDocsTicks)
NextDocs == InitAudio \/ StartD \/ StopDocs \/ FrameD
SpecDocs == Init /\ [][NextDocs]_vars

StartM == StartMeters(StereoPairs, MaxMeterTicks)
FrameM == FrameMeters(StereoPairs, MaxMeterTicks)
CalibrateM == Calibrate(StereoPairs)
NextMeters == InitAudioMeters \/ StartM \/ StopMeters \/ FrameM \/ CalibrateM
SpecMeters == Init /\ [][NextMeters]_vars

\* two runs of the meters side by side: each element is the first run's left
\* and right snapshot and the second run's; the runs differ in one channel
MaxStereoTicks == 2
StereoQuads ==
    {<<ConstSnap(100), ConstSnap(ByteMax), ConstSnap(100), ConstSnap(70)>>,
     <<ConstSnap(70), ConstSnap(100), ConstSnap(70), ConstSnap(ByteMax)>>,
     <<ConstSnap(100), ConstSnap(70), ConstSnap(ByteMax), ConstSnap(70)>>}
StartTwin == StartMeters(StereoQuads, MaxStereoTicks)
FrameTwin == FrameMeters(StereoQuads, MaxStereoTicks)
CalibrateTwin == Calibrate(StereoQuads)
NextStereo ==
    InitAudioMeters \/ StartTwin \/ StopMeters \/ FrameTwin \/ CalibrateTwin
SpecStereo == Init /\ [][NextStereo]_vars

\* the visualizer of docs/app.js on silence, with the display-mode switches
FullSnapshots == {ConstSnap(0)}
StartF == StartDocs(FullSnapshots, DocsDts, MaxFullTicks)
FrameF == FrameDocs(FullSnapshots, DocsDts, MaxFullTicks)
NextFull == InitAudio \/ StartF \/ FrameF \/ EnterFullscreen \/ ExitFullscreen
SpecFull == Init /\ [][NextFull]_vars

\* the AudioVisualizer of unnamed/part_000 with its commands and page reloads
NoiseSnapshots == {TailSnap(ByteMax)}
ReloadWaits == {FrameMs, ProfileTtl - 1, ProfileTtl}
StartN == StartNoise(NoiseSnapshots, DocsDts, MaxNoiseTicks)
FrameN == FrameNoise(NoiseSnapshots, DocsDts, MaxNoiseTicks)
CalibSnapshots == {TailSnap(ByteMax), TailSnap(100)}
CalibrateStepN == CalibrateStep(CalibSnapshots)
ManualSnapshots == {TailSnap(100)}
StartManualN == StartManualCalibration(ManualSnapshots, DocsDts, MaxNoiseTicks)
ReloadN == Reload(ReloadWaits)
NextNoise ==
    \/ InitAudioNoise \/ StartN \/ StopNoise \/ FrameN \/ CalibrateStepN
    \/ StartManualN \/ StopManualCalibration \/ ClearStoredNoiseProfile
    \/ ReloadN
SpecNoise == Init /\ [][NextNoise]_vars

\* docs/app.js over a whole particle life: a loud burst, then silence until the
\* fastest particle of the burst has died, then any of the two inputs and stop()
QuietTicks == LoudTicks + FP \div (CHOOSE d \in DecayChoices :
                                     \A e \in DecayChoices : e <= d) + 1
PoolSnapshots ==
    IF ticks < LoudTicks THEN {ConstSnap(ByteMax)}
    ELSE IF ticks < QuietTicks THEN {ConstSnap(0)}
    ELSE {ConstSnap(0), ConstSnap(ByteMax)}
StartP == StartDocs(PoolSnapshots, DocsDts, MaxPoolTicks)
FrameP == FrameDocs(PoolSnapshots, DocsDts, MaxPoolTicks)
StopP == ticks >= QuietTicks /\ StopDocs
NextPool == InitAudio \/ StartP \/ StopP \/ FrameP
SpecPool == Init /\ [][NextPool]_vars

\* docs/app.js from a loud burst to the death of its slowest particle
LifeSnapshots ==
    IF ticks < LoudTicks THEN {ConstSnap(ByteMax)} ELSE {ConstSnap(0)}
StartL == StartDocs(LifeSnapshots, DocsDts, MaxLifeTicks)
FrameL == FrameDocs(LifeSnapshots, DocsDts, MaxLifeTicks)
NextLife == InitAudio \/ StartL \/ FrameL
SpecLife == Init /\ [][NextLife]_vars

\* the same pipeline over one more tick, without the operator's stop of a
\* capture and without clearing: start(), stop(), captures and page loads
RestartWaits == {FrameMs, ProfileTtl}
CalibrateStepS == CalibrateStep(NoiseSnapshots)
StartR == StartNoise(NoiseSnapshots, DocsDts, MaxRestartTicks)
FrameR == FrameNoise(NoiseSnapshots, DocsDts, MaxRestartTicks)
StartManualR == StartManualCalibration(ManualSnapshots, DocsDts, MaxRestartTicks)
ReloadR == Reload(RestartWaits)
NextRestart ==
    \/ InitAudioNoise \/ StartR \/ StopNoise \/ FrameR \/ CalibrateStepS
    \/ StartManualR \/ ReloadR
SpecRestart == Init /\ [][NextRestart]_vars

\* start, stop and restart around an automatic burst; a pending timer and a
\* pending animation frame are eventually served by the event loop
MaxBurstTicks == 3
StartB == StartNoise(NoiseSnapshots, DocsDts, MaxBurstTicks)
FrameB == FrameNoise(NoiseSnapshots, DocsDts, MaxBurstTicks)
NextBurst == InitAudioNoise \/ StartB \/ StopNoise \/ FrameB \/ CalibrateStepS
SpecBurst ==
    Init /\ [][NextBurst]_vars /\ WF_vars(CalibrateStepS) /\ WF_vars(FrameB)

\* the same with a localStorage that may become unavailable
StoreWaits == {FrameMs, ProfileTtl}
ReloadS == Reload(StoreWaits)
NextStore ==
    \/ InitAudioNoise \/ StartN \/ StopNoise \/ FrameN \/ CalibrateStepS
    \/ StartManualN \/ StopManualCalibration \/ ClearStoredNoiseProfile
    \/ ReloadS \/ BreakStorage
SpecStore == Init /\ [][NextStore]_vars

\* the level shapers on every pair of a raw average and a noise average
InitShapers ==
    /\ InitViz
    /\ InitDocs
    /\ InitGhost
    /\ clock = 1000
    /\ InitMeters
    /\ InitNoise
    /\ InitBucket(BufferLength, BarCount)
    /\ \E raw \in RawLevels, noise \in NoiseLevels : InitShaper(raw, noise)
NextShaper == Shape
SpecShaper == InitShapers /\ [][NextShaper]_vars

\* the 3D pipeline on a loud burst and then silence for good, with the frame
\* callbacks scheduled by the browser as long as any is pending
SilenceSnapshots ==
    IF ticks < LoudTicks THEN {ConstSnap(ByteMax)} ELSE {ConstSnap(0)}
StartS == Start3D(SilenceSnapshots, RingDts, MaxSilenceTicks)
FrameS == Frame3D(SilenceSnapshots, RingDts, MaxSilenceTicks)
NextSilence == InitAudio \/ StartS \/ FrameS
SpecSilence == Init /\ [][NextSilence]_vars /\ WF_vars(NextSilence)

\* the bar loop on the sizes of the program (fftSize 256 gives 128 bins), on
\* twice as many bins, and on the sizes of the model
FftSize == 256
ConfiguredBars == 64
BucketSizes ==
    {<<FftSize \div 2, ConfiguredBars>>, <<FftSize, ConfiguredBars>>,
     <<BufferLength, BarCount>>}
InitBuckets ==
    /\ InitViz
    /\ InitDocs
    /\ InitGhost
    /\ clock = 1000
    /\ InitMeters
    /\ InitShaper(0, 0)
    /\ InitNoise
    /\ \E size \in BucketSizes : InitBucket(size[1], size[2])
NextBuckets == Bucket
SpecBuckets == InitBuckets /\ [][NextBuckets]_vars

\* the visualizer of docs/app.js and the meters side by side
AppSnapshots == {StepSnap(ByteMax)}
AppPairs == {<<ConstSnap(100), ConstSnap(ByteMax)>>}
StartAppD == StartDocs(AppSnapshots, DocsDts, MaxAppTicks - mTicks)
FrameAppD == FrameDocs(AppSnapshots, DocsDts, MaxAppTicks - mTicks)
StartAppM == StartMeters(AppPairs, MaxAppTicks - ticks)
FrameAppM == FrameMeters(AppPairs, MaxAppTicks - ticks)
CalibrateApp == Calibrate(AppPairs)
NextApp ==
    \/ InitAudio \/ StartAppD \/ StopDocs \/ FrameAppD
    \/ InitAudioMeters \/ StartAppM \/ StopMeters \/ FrameAppM \/ CalibrateApp
SpecApp == Init /\ [][NextApp]_vars

-----------------------------------------------------------------------------
(* Properties *)

\* C1: at the fixed capacity of 10 layers, after k ticks since the last stop the
\* history ring holds exactly min(10, k) snapshots, never more than 10, newest
\* first: entry j is the bar snapshot of the tick j-1 ticks before the latest.
C1_RingNewestFirst ==
    /\ Len(spectrumHistory) <= MaxHistoryLayers
    /\ Len(spectrumHistory) = Min(MaxHistoryLayers, Len(pushLog))
    /\ \A j \in 1 .. Len(spectrumHistory) : spectrumHistory[j] = pushLog[j]

\* more ticks than layers since the last stop, every tick with bars of its own
C1_RingFull ==
    /\ Len(pushLog) > MaxHistoryLayers
    /\ Len(spectrumHistory) = MaxHistoryLayers
    /\ \A j, k \in 1 .. Len(pushLog) : j # k => pushLog[j] # pushLog[k]

\* C2: the live particles never exceed maxParticles, and a spawnParticle call
\* made while the live count equals maxParticles leaves the live list and the
\* free pool as they are.
C2_ParticlesBounded ==
    /\ Len(particles) <= MaxParticles
    /\ Len(particles) = MaxParticles =>
          \A i \in Bars, d \in DecayChoices :
              LET r == SpawnParticle(particles, particlePool, i, 100 * FP, d)
              IN  r.live = particles /\ r.pool = particlePool

\* the live list is full and a tick has had a spawn refused
C2_SpawnRefused == Len(particles) = MaxParticles /\ refused > 0

\* the bars a freshly constructed pipeline of docs/app.js shows after its first
\* tick on the snapshot data
FreshBarsDocs(data) ==
    [i \in Bars |->
        LET s1 == Smooth(0, ApplySigmoidScaling(AverageDocs(data, i)))
        IN  DisplayHeight(s1, PeakStep(0, 0, s1, clock).peak)]

\* C3: stop() resets every bar's smoothed value and peak, the history ring, the
\* live particles, the rolling averages and the band energies, so that the first
\* tick after the next start() shows the bars a fresh pipeline shows on the same
\* snapshot.
C3_StopResetsPerTickState ==
    /\ lastOp \in StopOps =>
          /\ \A i \in Bars : barSmoothValues[i] = 0 /\ barPeaks[i] = 0
          /\ \A i \in Bars : rollingAverages[i] = 0
          /\ spectrumHistory = <<>>
          /\ particles = <<>>
          /\ musicEnergy = 0 /\ bassEnergy = 0 /\ midEnergy = 0 /\ trebleEnergy = 0
    /\ lastOp = "coldStart" => barSmoothValues = FreshBarsDocs(lastData)

\* C4: stop() is idempotent: a stop() called right after a stop() changes no
\* field of the visualizer (running flag, pending frame, bars, peaks, history,
\* particles, pool, rolling averages, energies) and no field of the meters
\* (running flag, pending frame, histories, widths, baselines, pending timers).
C4_StopIdempotent ==
    [][/\ lastOp' = "stopAgain" => UNCHANGED <<vizVars, docVars>>
       /\ mLastOp' = "stopAgain" => UNCHANGED meterVars]_vars

\* both components have ticked, each was stopped twice in a row, and callbacks
\* of the stopped components are still pending
C4_StoppedTwice ==
    /\ lastOp = "stopAgain" /\ mLastOp = "stopAgain"
    /\ ticks > 0 /\ mTicks > 0
    /\ mTimers.stale > 0
    /\ frames # {}

\* C5: a calibrate callback that was pending at a stop() never takes a sample
\* after that stop(), also when start() is called before the callback fires.
C5_NoStaleCalibration == ~staleSample

\* C7: for every raw average and every noise average in [0, 255] each variant of
\* the level shaper returns a value in [1, 100], never 0; the noise-subtracting
\* variant returns 1 when (raw - noise - 5) / 255 * 100 is at most 1 and that
\* quotient otherwise, which stays below 100.
C7_ShaperInRange ==
    shDone =>
        LET cleaned == shRaw - shNoise - NoiseMargin * FP
        IN  /\ \A v \in {"linear", "plain", "sigmoid"} :
                   1 * FP <= shOut[v] /\ shOut[v] <= 100 * FP
            /\ cleaned * 100 <= ByteMax * FP => shOut.linear = 1 * FP
            /\ cleaned * 100 > ByteMax * FP =>
                   /\ shOut.linear * ByteMax <= cleaned * 100
                   /\ cleaned * 100 < (shOut.linear + 1) * ByteMax
                   /\ shOut.linear < 100 * FP

\* a call with a positive noise average whose result is above the floor of 1
C7_ShapedAboveFloor ==
    /\ shDone
    /\ shNoise > 0
    /\ shOut.linear > 1 * FP

C9_ProfileRoundTrip ==
    lastOp = "reload" =>
        IF saved.present /\ clock - saved.timestamp < ProfileTtl
        THEN /\ loadOk
             /\ ~backgroundNoise.null
             /\ backgroundNoise.at = saved.noiseProfile
             /\ storage.present
             /\ Parse(storage.text).timestamp = saved.timestamp
        ELSE ~loadOk /\ backgroundNoise.null

\* a profile with fractional values is loaded one millisecond before it expires
C9_LoadedAtLastMoment ==
    /\ lastOp = "reload"
    /\ loadOk
    /\ clock - saved.timestamp = ProfileTtl - 1
    /\ \E j \in Bins : backgroundNoise.at[j] % FP # 0

\* C10: no automatic calibration burst is still sampling (a calibrateStep
\* pending, fewer samples taken than the burst has, the pipeline running) while
\* a manual capture is active, and no automatic step writes into a profile
\* that a manual calibration has rebuilt.
C10_CalibrationModesExclusive ==
    /\ ~(/\ manualCalibrationActive
         /\ isRunning
         /\ noiseTimers > 0
         /\ noiseCalibrationCount < NoiseCalibrationTarget)
    /\ ~autoWroteManual

\* C11: whenever a noise profile exists its length is the snapshot length, every
\* value is a non-negative number and every bin at or above floor(0.6 * N) is 0.
C11_ProfileWellFormed ==
    ~backgroundNoise.null =>
        /\ DOMAIN backgroundNoise.at = Bins
        /\ \A j \in Bins :
               /\ backgroundNoise.at[j] >= 0
               /\ j >= UsableRange => backgroundNoise.at[j] = 0

\* an automatic step has just sampled a snapshot that is loud in its highest bin
\* and the profile has a positive value
C11_ProfileAfterAutoStep ==
    /\ lastOp = "calibrateStep"
    /\ noiseCalibrationCount > 0
    /\ ~backgroundNoise.null
    /\ \E j \in Bins : backgroundNoise.at[j] > 0

\* C12: when the capacity of the history ring shrinks from 15 to 10 layers
\* between ticks, the excess entries are gone at the end of the next tick: after
\* every tick in normal display mode the ring holds at most 10 snapshots.
C12_RingShrinksAtOnce ==
    (~fullscreen /\ lastOp \in {"frame", "start", "coldStart"}) =>
        Len(spectrumHistory) <= MaxHistoryLayers

\* C13: a failure of localStorage during save, load or clear is caught, and
\* after a failed load and after a failed clear the profile in memory is empty.
C13_StorageFailureLeavesNoProfile ==
    /\ lastOp = "reloadFailed" => (backgroundNoise.null /\ ~loadOk)
    /\ lastOp = "clearFailed" => backgroundNoise.null

\* C14: the live particles and the pooled particles together never exceed
\* maxParticles, a spawn with a non-empty pool takes its particle from the pool
\* (the total stays the same), a spawn with an empty pool adds one particle, and
\* updateParticles() moves particles to the pool without changing the total.
C14_AllocationBounded ==
    /\ Len(particles) + Len(particlePool) <= MaxParticles
    /\ \A i \in Bars, d \in DecayChoices :
           LET r == SpawnParticle(particles, particlePool, i, 100 * FP, d)
               total == Len(particles) + Len(particlePool)
           IN  /\ (r.spawned /\ particlePool # <<>>) =>
                      Len(r.live) + Len(r.pool) = total
               /\ (r.spawned /\ particlePool = <<>>) =>
                      (Len(r.live) + Len(r.pool) = total + 1 /\ r.pool = <<>>)
    /\ LET u == UpdateParticles(particles, particlePool)
       IN  /\ Len(u.live) + Len(u.pool) = Len(particles) + Len(particlePool)
           /\ Len(u.pool) >= Len(particlePool)

\* after the fast particles of the first burst have died and gone to the pool, a
\* tick has spawned particles (they have aged once) beside a survivor of the
\* burst: the pool is used up and the live list holds maxParticles
C14_PoolReused ==
    /\ lastOp = "frame"
    /\ ticks > QuietTicks
    /\ particlePool = <<>>
    /\ Len(particles) = MaxParticles
    /\ \E k \in DOMAIN particles : particles[k].life + particles[k].decay = FP
    /\ \E k \in DOMAIN particles : particles[k].life * 2 < FP

\* the value of bin j of a profile; a profile that is null holds no value
ProfileValue(bg, j) == IF bg.null THEN 0 ELSE bg.at[j]

\* C15: an automatic calibration step lowers no bin of the profile, and a step
\* of the pipeline that lowers a bin is the reset of start(), the rebuild of
\* stopManualCalibration() (called by the operator or by the tick that fills the
\* capture window), or clearStoredNoiseProfile().  (A page load builds a new
\* pipeline, whose profile is the stored one or none.)
C15_ProfileMonotone ==
    [][LET lowered == \E j \in Bins : ProfileValue(backgroundNoise', j)
                                        < ProfileValue(backgroundNoise, j)
           rebuilt == manualCalibrationActive /\ ~manualCalibrationActive'
       IN  /\ lastOp' = "calibrateStep" => ~lowered
           /\ (lowered /\ lastOp' \notin {"reload", "reloadFailed"}) =>
                  \/ lastOp' \in {"start", "coldStart", "stopManualCalibration",
                                  "clearStoredNoiseProfile"}
                  \/ rebuilt]_vars

\* an automatic burst has run to its end on the two snapshots, the louder one
\* first or second, and bin 0 holds 0.8 of the louder one
C15_BurstKeptMaximum ==
    /\ lastOp = "calibrateStep"
    /\ noiseCalibrationCount = NoiseCalibrationTarget
    /\ ~backgroundNoise.null
    /\ backgroundNoise.at[0] = (ByteMax * FP * 8) \div 10
    /\ backgroundNoise.at[1] = backgroundNoise.at[0]

C17_PeakHold ==
    [][ticks' = ticks + 1 =>
          \A i \in Bars :
              LET smoothed == Smooth(barSmoothValues[i],
                                     ProcessAudioLevel3D(Average(lastData', i)))
                  d == IF clock' - barPeakTimes[i] > 200 THEN 85 ELSE 98
              IN  IF smoothed > barPeaks[i]
                  THEN barPeaks'[i] = smoothed /\ barPeakTimes'[i] = clock'
                  ELSE /\ barPeakTimes'[i] = barPeakTimes[i]
                       /\ barPeaks'[i] = Max((barPeaks[i] * d) \div 100, smoothed)]_vars

\* a tick has come more than 200 ms after a bar's peak was stamped, and the
\* peak has decayed but still stands above the bar
C17_HoldExpired ==
    /\ lastOp = "frame"
    /\ \E i \in Bars :
           /\ barPeakTimes[i] >= 1000
           /\ clock - barPeakTimes[i] > PeakHoldTime
           /\ barPeaks[i] > barSmoothValues[i]
           /\ barPeaks[i] < ProcessAudioLevel3D(ByteMax * FP)

\* C18 as stated: with zero input on every tick for long enough, every bar's
\* smoothed value and peak come and stay below 1 percent on their way to 0, and
\* neither is ever below 0.
C18_ConvergesToZero ==
    /\ [](\A i \in Bars : barSmoothValues[i] >= 0 /\ barPeaks[i] >= 0)
    /\ <>[](\A i \in Bars : barSmoothValues[i] < 1 * FP /\ barPeaks[i] < 1 * FP)

\* C18 amended: with zero input on every tick for long enough, every bar's
\* smoothed value and peak come to rest at 1 percent, the floor of
\* processAudioLevel, where a further tick on zero input leaves them; neither is
\* ever below 0.
C18_ConvergesToFloor ==
    /\ [](\A i \in Bars : barSmoothValues[i] >= 0 /\ barPeaks[i] >= 0)
    /\ <>[](\A i \in Bars :
               /\ barSmoothValues[i] = 1 * FP
               /\ barPeaks[i] = 1 * FP
               /\ BarTrack3D(ConstSnap(0), i, clock + FrameMs).smooth = 1 * FP
               /\ BarTrack3D(ConstSnap(0), i, clock + FrameMs).peak = 1 * FP)

\* after a loud burst (the log holds a bar above 20 percent) the silence has
\* lasted to the last tick and every bar and peak stands at 1 percent
C18_SilentAtFloor ==
    /\ lastOp = "frame"
    /\ ticks = MaxSilenceTicks
    /\ \E k \in DOMAIN pushLog : \E i \in Bars : pushLog[k][i] > 20 * FP
    /\ \A i \in Bars : barSmoothValues[i] = 1 * FP /\ barPeaks[i] = 1 * FP

\* C19: a tick that appends its snapshot to the manual-calibration buffer leaves
\* the smoothed value, the peak and the peak timestamp of every bar as they
\* were, the tick that records the last sample of the window included.
C19_BarsFrozenWhileRecording ==
    [][(/\ ticks' = ticks + 1
        /\ manualCalibrationActive \/ lastOp' = "startManualCalibration")
          => UNCHANGED <<barSmoothValues, barPeaks, barPeakTimes>>]_vars

\* C20: the capture buffer never holds more than the window (100 samples) and
\* the capture is over once it holds that many; a capture that ends, on the
\* tick that fills the window or by stopManualCalibration(), has at least one
\* sample and leaves the profile with 0.9 of each bin's maximum over the
\* samples below floor(0.6 x N) and 0 elsewhere, saved under the time of the
\* step; stopManualCalibration() with an empty buffer leaves the profile and
\* the stored item as they were.
C20_CaptureEndsAndRebuilds ==
    [][LET ended == /\ manualCalibrationActive /\ ~manualCalibrationActive'
                    /\ lastOp' \notin {"reload", "reloadFailed"}
           samples == calibrationSamples'
           top(j) == CHOOSE m \in {samples[k][j] : k \in DOMAIN samples} :
                         \A k \in DOMAIN samples : samples[k][j] <= m
       IN  /\ Len(samples) <= CalibrationWindow
           /\ manualCalibrationActive' => Len(samples) < CalibrationWindow
           /\ ended =>
                 /\ Len(samples) > 0
                 /\ ~backgroundNoise'.null
                 /\ \A j \in Bins :
                        backgroundNoise'.at[j] =
                            IF j < (BufferLength * 6) \div 10
                            THEN (top(j) * FP * 9) \div 10 ELSE 0
                 /\ storage' = Item(Stringify(clock', backgroundNoise'.at))
           /\ (lastOp' = "stopManualCalibration" /\ calibrationSamples = <<>>) =>
                 UNCHANGED <<backgroundNoise, storage>>]_vars

\* a tick has filled the window with a quiet and a loud sample: the capture is
\* over, the profile holds 0.9 of the loud one and it is stored
C20_WindowFilled ==
    /\ lastOp \in {"frame", "start"}
    /\ ~manualCalibrationActive
    /\ Len(calibrationSamples) = CalibrationWindow
    /\ calibrationSamples[1] # calibrationSamples[CalibrationWindow]
    /\ ~backgroundNoise.null
    /\ backgroundNoise.at[0] = (ByteMax * FP * 9) \div 10
    /\ storage = Item(Stringify(clock, backgroundNoise.at))

\* C21 as stated: start() begins an automatic burst (one more calibrateStep
\* pending, the sample count back at 0) exactly when the profile is missing or
\* all zero; a page load that finds a profile as old as the TTL holds none, and
\* a start() on a profile with a non-zero value schedules nothing and leaves the
\* profile as it was.
C21_StartCalibratesIffEmpty ==
    [][/\ (lastOp' = "reload" /\ saved.present /\ clock' - saved.timestamp >= ProfileTtl)
            => backgroundNoise'.null
       /\ lastOp' \in {"start", "coldStart"} =>
             IF backgroundNoise.null \/ \A j \in Bins : backgroundNoise.at[j] = 0
             THEN noiseTimers' = noiseTimers + 1 /\ noiseCalibrationCount' = 0
             ELSE /\ noiseTimers' = noiseTimers
                  /\ noiseCalibrationCount' = noiseCalibrationCount
                  /\ backgroundNoise' = backgroundNoise]_vars

\* C21 amended: the same, but the profile is left as it was only when the
\* animate() of start() does not record the last sample of a manual capture;
\* when it does, the capture's rebuild replaces the profile.
C21_StartCalibratesIffEmptyOrRebuilds ==
    [][/\ (lastOp' = "reload" /\ saved.present /\ clock' - saved.timestamp >= ProfileTtl)
            => backgroundNoise'.null
       /\ lastOp' \in {"start", "coldStart"} =>
             IF backgroundNoise.null \/ \A j \in Bins : backgroundNoise.at[j] = 0
             THEN noiseTimers' = noiseTimers + 1 /\ noiseCalibrationCount' = 0
             ELSE /\ noiseTimers' = noiseTimers
                  /\ noiseCalibrationCount' = noiseCalibrationCount
                  /\ \/ backgroundNoise' = backgroundNoise
                     \/ /\ manualCalibrationActive /\ ~manualCalibrationActive'
                        /\ Len(calibrationSamples') = CalibrationWindow]_vars

\* a page load has discarded a stored profile as old as the TTL, and the
\* start() after it has begun a burst on a profile of zeros
C21_FreshBurstAfterStale ==
    /\ lastOp \in {"start", "coldStart"}
    /\ reloads > 0
    /\ ~loadOk
    /\ saved.present
    /\ clock - saved.timestamp >= ProfileTtl
    /\ noiseTimers > 0
    /\ noiseCalibrationCount = 0
    /\ ~backgroundNoise.null
    /\ \A j \in Bins : backgroundNoise.at[j] = 0

RECURSIVE BarSum(_, _, _)
\* the sum of the displayed values of the bars from .. to - 1
BarSum(bars, from, to) ==
    IF from >= to THEN 0 ELSE bars[from] + BarSum(bars, from + 1, to)

\* C22: the bands [0, floor(0.2 B)), [floor(0.2 B), floor(0.6 B)) and the rest
\* are non-empty and split the bars, for the 48 bars of the program and for the
\* bars of the model; each band energy is the mean of the displayed values of
\* its bars (rounded down to the fixed-point unit), the overall energy is the
\* mean of the three, and all four lie in [0, 100].
C22_BandEnergies ==
    LET lo == (BarCount * 2) \div 10
        hi == (BarCount * 6) \div 10
        IsMean(m, total, n) == m * n <= total /\ total < (m + 1) * n
    IN  /\ \A b \in {BarCount, ConfiguredBarsDocs} :
               /\ 0 < BassRangeOf(b) /\ BassRangeOf(b) < MidRangeOf(b)
               /\ MidRangeOf(b) < b
               /\ BassRangeOf(b) * 10 <= b * 2 /\ b * 2 < (BassRangeOf(b) + 1) * 10
               /\ MidRangeOf(b) * 10 <= b * 6 /\ b * 6 < (MidRangeOf(b) + 1) * 10
        /\ IsMean(bassEnergy, BarSum(barSmoothValues, 0, lo), lo)
        /\ IsMean(midEnergy, BarSum(barSmoothValues, lo, hi), hi - lo)
        /\ IsMean(trebleEnergy, BarSum(barSmoothValues, hi, BarCount), BarCount - hi)
        /\ IsMean(musicEnergy, bassEnergy + midEnergy + trebleEnergy, 3)
        /\ \A e \in {bassEnergy, midEnergy, trebleEnergy, musicEnergy} :
               0 <= e /\ e <= 100 * FP

\* a tick has left three different band energies
C22_BandsDiffer ==
    /\ lastOp = "frame"
    /\ bassEnergy > midEnergy
    /\ midEnergy > trebleEnergy
    /\ trebleEnergy > 0

\* the particles of bar i that the tick just taken has spawned: they have aged once
FreshParticles(i) ==
    {k \in DOMAIN particles' :
        particles'[k].frequency = i /\ particles'[k].life + particles'[k].decay = FP}

\* C23: on every tick a bar spawns exactly one particle when its raw level is
\* above its rolling average plus 15, its displayed value is above 20 and the
\* live list, with the particles of the bars before it, is below maxParticles;
\* it spawns none otherwise.  With a rolling average of 30 and a displayed value
\* of 25 a raw level of 46 spawns one particle and a raw level of 45 none.
C23_TransientSpawnsOne ==
    [][/\ DetectFrequencyPeaks(30 * FP, 46 * FP, 25 * FP)
       /\ ~DetectFrequencyPeaks(30 * FP, 45 * FP, 25 * FP)
       /\ ~DetectFrequencyPeaks(30 * FP, 46 * FP, 20 * FP)
       /\ Len(SpawnParticle(<<>>, <<>>, 0, 46 * FP, 10).live) = 1
       /\ ticks' = ticks + 1 =>
             LET hit(i) ==
                     /\ ApplySigmoidScaling(AverageDocs(lastData', i))
                            > rollingAverages'[i] + 15 * FP
                     /\ barSmoothValues'[i] > 20 * FP
                 before(i) == Cardinality({k \in Bars : k < i /\ hit(k)})
             IN  \A i \in Bars :
                     Cardinality(FreshParticles(i)) =
                         IF hit(i) /\ Len(particles) + before(i) < MaxParticles
                         THEN 1 ELSE 0]_vars

\* a tick has spawned a particle for one bar and none for another although the
\* live list has room left
C23_OneBarSpawned ==
    /\ lastOp = "frame"
    /\ Len(particles) < MaxParticles
    /\ \E k \in DOMAIN particles : particles[k].life + particles[k].decay = FP

\* the live particles of the state left, each aged once
AgedParticles ==
    [k \in DOMAIN particles |->
        [particles[k] EXCEPT !.life = @ - particles[k].decay]]

\* C24: a tick ages every particle that was live exactly once: those with life
\* left stay at the head of the live list in their order, aged once, and those
\* whose life has reached 0 or less are in the pool and no longer live.  Every
\* live particle has a life in (0, 1], every decay is at least 0.01, and 100
\* ticks after the last tick that can spawn no particle is live.
C24_ParticlesAgeAndDie ==
    [][/\ \A k \in DOMAIN particles' :
              /\ 0 < particles'[k].life /\ particles'[k].life <= FP
              /\ particles'[k].decay * 100 >= FP
       /\ \A m \in DOMAIN particlePool' : particlePool'[m].life <= 0
       /\ ticks' >= LoudTicks + 99 => particles' = <<>>
       /\ ticks' = ticks + 1 =>
             LET alive == {k \in DOMAIN particles : AgedParticles[k].life > 0}
                 dead == DOMAIN particles \ alive
                 rank(k) == Cardinality({n \in alive : n <= k})
             IN  /\ Len(particles') >= Cardinality(alive)
                 /\ \A k \in alive : particles'[rank(k)] = AgedParticles[k]
                 /\ \A k \in DOMAIN particles' :
                        k > Cardinality(alive) =>
                            particles'[k].life + particles'[k].decay = FP
                 /\ Len(particlePool') >= Cardinality(dead)
                 /\ \A k \in dead :
                        \E m \in DOMAIN particlePool' :
                            particlePool'[m] = AgedParticles[k]]_vars

\* the slowest particle of the first tick is live on its 99th tick beside the
\* dead ones in the pool; the next tick removes it
C24_LastTickOfLife ==
    /\ lastOp = "frame"
    /\ Len(particles) = 1
    /\ particles[1].life = particles[1].decay
    /\ particles[1].decay * 100 = FP
    /\ particlePool # <<>>

\* the blends of a percentage with an average under either pair of weights
Blends(pct, avg) ==
    {Max(0, (pct * 6 + avg * 4) \div 10), Max(0, (pct * 4 + avg * 6) \div 10)}

\* C25: on a tick that pushes a percentage to a channel's history, the value
\* returned is the percentage itself when the history held fewer than 2 entries
\* before the push, and otherwise a blend of the percentage with the mean of
\* the last two entries the history held before the push.
C25_WindowExcludesCurrent ==
    [][mTicks' = mTicks + 1 =>
          \A ch \in 1 .. 2 :
              LET earlier == IF ch = 1 THEN leftHistory ELSE rightHistory
                  later == IF ch = 1 THEN leftHistory' ELSE rightHistory'
                  pct == later[Len(later)]
                  n == Len(earlier)
              IN  mOut'[ch] > 0 =>
                      IF n < 2 THEN mOut'[ch] = pct
                      ELSE mOut'[ch] \in
                               Blends(pct, (earlier[n - 1] + earlier[n]) \div 2)]_vars

\* attack weighs the new value 0.6, decay weighs it 0.4
AttackDecay(pct, avg) ==
    IF pct > avg THEN Max(0, (pct * 6 + avg * 4) \div 10)
    ELSE Max(0, (pct * 4 + avg * 6) \div 10)

\* C26: on a tick that blends, the value returned weighs the new percentage
\* 0.6 and recentAvg 0.4 when the percentage exceeds recentAvg, and 0.4 and 0.6
\* when it does not; recentAvg is the mean of the last two history entries,
\* taken either after or before the push of the percentage.
C26_AttackFastDecaySlow ==
    [][mTicks' = mTicks + 1 =>
          \A ch \in 1 .. 2 :
              LET earlier == IF ch = 1 THEN leftHistory ELSE rightHistory
                  later == IF ch = 1 THEN leftHistory' ELSE rightHistory'
                  pct == later[Len(later)]
                  n == Len(earlier)
                  m == Len(later)
              IN  (mOut'[ch] > 0 /\ m >= 2) =>
                      \/ mOut'[ch] =
                             AttackDecay(pct, (later[m - 1] + later[m]) \div 2)
                      \/ /\ n >= 2
                         /\ mOut'[ch] =
                                AttackDecay(pct, (earlier[n - 1] + earlier[n]) \div 2)]_vars

\* C27: two runs of the meters that performed the same operations and read the
\* same left snapshots have the same left baseline, left history and left
\* output, whatever their right snapshots were; and the same with left and
\* right exchanged.
C27_ChannelsIndependent ==
    /\ twin.sameLeft => /\ leftBaseline = twin.leftBaseline
                        /\ leftHistory = twin.leftHistory
                        /\ mOut[1] = twin.out[1]
    /\ twin.sameRight => /\ rightBaseline = twin.rightBaseline
                         /\ rightHistory = twin.rightHistory
                         /\ mOut[2] = twin.out[2]

\* calibrated and ticking, the runs agree on every left snapshot and differ in
\* the right channel's baseline, history and output
C27_RightDiffersLeftAgrees ==
    /\ twin.sameLeft
    /\ ~twin.sameRight
    /\ leftBaseline > 0
    /\ Len(leftHistory) >= 2
    /\ mOut[1] > 0
    /\ rightBaseline # twin.rightBaseline
    /\ rightHistory # twin.rightHistory
    /\ mOut[2] # twin.out[2]

\* C28: when from some point on the pipeline runs and is never stopped again,
\* the automatic burst eventually reaches its full count of samples.
C28_BurstCompletes ==
    (<>[]isRunning) => <>(noiseCalibrationCount = NoiseCalibrationTarget)

\* C29: at most one animation-frame callback of the visualizer is pending.
C29_OneLoop == Cardinality(frames) <= 1

\* C30: every calibrateStep that runs with the burst unfinished and the
\* pipeline running finds a profile array, takes its sample and stays
\* scheduled.
C30_StepFindsProfile ==
    [][(/\ lastOp' = "calibrateStep"
        /\ noiseCalibrationCount < NoiseCalibrationTarget
        /\ isRunning)
          => /\ ~backgroundNoise.null
             /\ noiseCalibrationCount' = noiseCalibrationCount + 1
             /\ noiseTimers' = noiseTimers]_vars

\* C6: after every tick, for any snapshots and any tick times, every bar's
\* smoothed value and peak lie in [0, 100].
C6_BarsInRange ==
    \A i \in Bars :
        /\ 0 <= barSmoothValues[i] /\ barSmoothValues[i] <= 100 * FP
        /\ 0 <= barPeaks[i] /\ barPeaks[i] <= 100 * FP

\* after a loud tick and a pause a quiet tick leaves a bar's peak decaying above
\* its level
C6_PeakAboveLevel ==
    /\ lastOp = "frame"
    /\ ticks >= 2
    /\ \E i \in Bars : barPeaks[i] > barSmoothValues[i] /\ barSmoothValues[i] > 1 * FP

=============================================================================
